------------------------------- MODULE Kiosk --------------------------------
(***************************************************************************)
(* The kiosk: the talk state machine (src/src/kiosk/handlers.ts) behind a  *)
(* local server that also streams the state to its pages                   *)
(* (src/src/kiosk/server.ts).                                              *)
(*                                                                         *)
(* Each POST is a call of its own, and each handler awaits a hook: the     *)
(* microphone's startCapture and stopCapture, or cancelSpeech.  Other      *)
(* calls run meanwhile, and no hook is cancelled by another.  getState is  *)
(* left out, as nothing passes it.  Requests that change nothing (status,  *)
(* the page, 403 and 404) are no steps, and a page's request for /events   *)
(* is one step, because status() awaits nothing.                           *)
(***************************************************************************)
CONSTANTS
    Calls,     \* POSTs, each made at most once
    Streams    \* pages that may listen to /events

VARIABLES
    state,     \* the state of the handlers
    calls,     \* where each call is
    session,   \* history: the latest talkStart that was accepted
    kioskServer, \* "up", "closing", "closed"
    clients,   \* sseClients
    ticking,   \* tickTimer is set
    shown      \* the last status written to each page

kioskVars == <<state, calls, session, kioskServer, clients, ticking, shown>>

KioskState == {"idle", "listening", "thinking", "speaking"}

(* What a call awaits, and which hook may fail.                            *)
Hooks == {"startCapture", "stopCapture", "cancelSpeech"}

Phases == {"none", "open", "failed", "ended"}

KioskInit ==
    /\ state = "idle"
    /\ calls = [c \in Calls |-> "new"]
    /\ session = [phase |-> "none", by |-> {}]
    /\ kioskServer = "up"
    /\ clients = {}
    /\ ticking = FALSE
    /\ shown = [s \in Streams |-> "nothing"]

streamVars == <<kioskServer, clients, ticking, shown>>
-----------------------------------------------------------------------------
Awaits(c, hook) == calls' = [calls EXCEPT ![c] = hook]

Answers(c) == calls' = [calls EXCEPT ![c] = "answered"]

Arrives(c) == kioskServer = "up" /\ calls[c] = "new"

TalkStart(c) ==
    /\ Arrives(c)
    /\ IF state = "idle"
       THEN /\ state' = "listening"
            /\ session' = [phase |-> "open", by |-> {c}]
            /\ Awaits(c, "startCapture")
       ELSE Answers(c) /\ UNCHANGED <<state, session>>
    /\ UNCHANGED streamVars

(* startCapture settles; a failure sets idle, whoever set the state since. *)
CaptureStarts(c) ==
    /\ calls[c] = "startCapture"
    /\ Answers(c)
    /\ UNCHANGED <<state, session, streamVars>>

(* Variant: the catch leaves the state alone.                              *)
CaptureFails_KeepsState(c) ==
    /\ calls[c] = "startCapture"
    /\ session' = IF session = [phase |-> "open", by |-> {c}]
                  THEN [session EXCEPT !.phase = "failed"] ELSE session
    /\ Answers(c)
    /\ UNCHANGED <<state, streamVars>>

CaptureFails(c) ==
    /\ calls[c] = "startCapture"
    /\ state' = "idle"
    /\ session' = IF session = [phase |-> "open", by |-> {c}]
                  THEN [session EXCEPT !.phase = "failed"] ELSE session
    /\ Answers(c)
    /\ UNCHANGED streamVars

TalkEnd(c) ==
    /\ Arrives(c)
    /\ IF state = "listening"
       THEN /\ state' = "thinking"
            /\ session' = [session EXCEPT !.phase = "ended"]
            /\ Awaits(c, "stopCapture")
       ELSE Answers(c) /\ UNCHANGED <<state, session>>
    /\ UNCHANGED streamVars

(* stopCapture settles: with words, without, or with an error.             *)
CaptureStops(c) ==
    /\ calls[c] = "stopCapture"
    /\ \E transcript \in {"words", "nothing"} :
         state' = IF transcript = "words" THEN "speaking" ELSE "idle"
    /\ Answers(c)
    /\ UNCHANGED <<session, streamVars>>

(* Variant: the catch leaves the state alone.                              *)
CaptureStopFails_KeepsState(c) ==
    /\ calls[c] = "stopCapture"
    /\ Answers(c)
    /\ UNCHANGED <<state, session, streamVars>>

CaptureStopFails(c) ==
    /\ calls[c] = "stopCapture"
    /\ state' = "idle"
    /\ Answers(c)
    /\ UNCHANGED <<session, streamVars>>

(* interrupt() looks at no state, and sets idle once the speech is off.    *)
Interrupt(c) ==
    /\ Arrives(c)
    /\ Awaits(c, "cancelSpeech")
    /\ UNCHANGED <<state, session, streamVars>>

SpeechCancelled(c) ==
    /\ calls[c] = "cancelSpeech"
    /\ state' = "idle"
    /\ Answers(c)
    /\ UNCHANGED <<session, streamVars>>

CancelFails(c) ==
    /\ calls[c] = "cancelSpeech"
    /\ Answers(c)
    /\ UNCHANGED <<state, session, streamVars>>
-----------------------------------------------------------------------------
talkVars == <<state, calls, session>>

(* A page asks for /events: it gets the state, and the ticker is on.       *)
Connect(s) ==
    /\ kioskServer = "up" /\ s \notin clients
    /\ shown' = [shown EXCEPT ![s] = state]
    /\ clients' = clients \cup {s}
    /\ ticking' = TRUE
    /\ UNCHANGED <<kioskServer, talkVars>>

(* Variant: any page that leaves stops the ticker.                         *)
Disconnect_StopsTicker(s) ==
    /\ s \in clients
    /\ clients' = clients \ {s}
    /\ ticking' = FALSE
    /\ UNCHANGED <<kioskServer, shown, talkVars>>

(* The last page that leaves stops the ticker.                             *)
Disconnect(s) ==
    /\ s \in clients
    /\ clients' = clients \ {s}
    /\ ticking' = (ticking /\ clients' # {})
    /\ UNCHANGED <<kioskServer, shown, talkVars>>

(* writeTick: one status for all pages.                                    *)
Tick ==
    /\ ticking /\ clients # {}
    /\ shown' = [s \in Streams |-> IF s \in clients THEN state ELSE shown[s]]
    /\ UNCHANGED <<kioskServer, clients, ticking, talkVars>>

(* stop(): the ticker and the streams end, then server.close() waits for   *)
(* the calls under way.                                                    *)
KioskStop ==
    /\ kioskServer = "up"
    /\ kioskServer' = "closing"
    /\ clients' = {}
    /\ ticking' = FALSE
    /\ UNCHANGED <<shown, talkVars>>

Closes ==
    /\ kioskServer = "closing"
    /\ \A c \in Calls : calls[c] \notin Hooks
    /\ kioskServer' = "closed"
    /\ UNCHANGED <<clients, ticking, shown, talkVars>>

StartSettles(c) == CaptureStarts(c) \/ CaptureFails(c)
EndSettles(c) == CaptureStops(c) \/ CaptureStopFails(c)
InterruptSettles(c) == SpeechCancelled(c) \/ CancelFails(c)

KioskNext ==
    \/ \E c \in Calls :
         \/ TalkStart(c) \/ TalkEnd(c) \/ Interrupt(c)
         \/ StartSettles(c) \/ EndSettles(c) \/ InterruptSettles(c)
    \/ \E s \in Streams : Connect(s) \/ Disconnect(s)
    \/ Tick \/ KioskStop \/ Closes

KioskSpec == KioskInit /\ [][KioskNext]_kioskVars

(* The hooks settle, the interval fires, and close() calls back.           *)
KioskFairSpec ==
    /\ KioskSpec
    /\ \A c \in Calls :
         WF_kioskVars(StartSettles(c)) /\ WF_kioskVars(EndSettles(c)) /\ WF_kioskVars(InterruptSettles(c))
    /\ WF_kioskVars(Tick) /\ WF_kioskVars(Closes)
-----------------------------------------------------------------------------
KioskTypeOK ==
    /\ state \in KioskState
    /\ calls \in [Calls -> {"new", "answered"} \cup Hooks]
    /\ session \in [phase : Phases, by : SUBSET Calls]
    /\ kioskServer \in {"up", "closing", "closed"}
    /\ clients \subseteq Streams
    /\ ticking \in BOOLEAN
    /\ shown \in [Streams -> KioskState \cup {"nothing"}]

(* The kiosk says "Listening..." only for the latest session, and only     *)
(* while that one is open: a start that failed, late or behind other       *)
(* sessions, and a session that was ended, are not listened to.            *)
ListeningIsLatest == state = "listening" => session.phase = "open"

(* The kiosk does not stay at "Thinking...": whichever way stopCapture      *)
(* settles, and whatever other calls do meanwhile, it moves on.            *)
ThinkingEnds == state = "thinking" ~> state # "thinking"

(* The ticker runs exactly while a page listens, across pages that come    *)
(* and go and across stop().                                               *)
TickerIffClients == ticking <=> clients # {}

(* A page that stays gets to see the state, when the state stays.          *)
StreamsCatchUp == \A s \in Streams : []<>(s \notin clients \/ shown[s] = state)
=============================================================================
