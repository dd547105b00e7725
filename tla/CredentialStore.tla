-------------------------- MODULE CredentialStore ---------------------------
(***************************************************************************)
(* The credential store: the encrypted file                                *)
(* (src/src/auth/file-backend.ts) under withRotation                       *)
(* (src/src/auth/rotation.ts), which keeps a timestamp per provider in a   *)
(* second key of the same file.                                            *)
(*                                                                         *)
(* Every inner set and remove reads the file, changes its copy and writes  *)
(* it back, with awaits in between and no lock.  writeFile truncates the   *)
(* file and then fills it; a file that is absent, or empty, reads as no    *)
(* secrets at all.  A master key, and with it encryption, is left out: all *)
(* callers have the same one.  get, list, lastRotated and stale only read  *)
(* and are no steps.  Secrets and timestamps are named by the number of    *)
(* the call that writes them.                                              *)
(***************************************************************************)
EXTENDS Naturals, Sequences, Functions

CONSTANTS
    Callers,      \* callers of the store; each awaits its call
    Providers,
    MaxMade       \* bound of the model: calls of set and markRotated

ASSUME CredentialAssumption == MaxMade \in Nat

VARIABLES
    file,         \* what a read of the file finds
    calls,        \* the call of each caller
    made,         \* calls of set and markRotated so far
    marks,        \* history: the timestamps written by markRotated
    promised,     \* history: what the file should hold, calls taken one by one
    mixed,        \* history: calls have overlapped since all was quiet
    everMixed     \* history: calls have overlapped

credentialVars == <<file, calls, made, marks, promised, mixed, everMixed>>

(* The two entries of a provider: its id, and timestampKey(id).            *)
EntryKeys == Providers \X {"secret", "at"}

Absent == 0

NoSecrets == [k \in EntryKeys |-> Absent]

(* An inner operation: the key, and the value it gets; Absent removes it.   *)
Write(p, entry, value) == [key |-> <<p, entry>>, value |-> value]

(* A call: the inner operations left, and the copy it is working on.       *)
Idle == [todo |-> <<>>, step |-> "idle", copy |-> NoSecrets]

Quiet == \A c \in Callers : calls[c] = Idle

CredentialInit ==
    /\ file = NoSecrets
    /\ calls = [c \in Callers |-> Idle]
    /\ made = 0
    /\ marks = {}
    /\ promised = NoSecrets
    /\ mixed = FALSE /\ everMixed = FALSE

(* What a sequence of inner operations makes of a file.                    *)
Applied(secrets, ops) ==
    [k \in EntryKeys |->
        IF \E i \in 1 .. Len(ops) : ops[i].key = k
        THEN (CHOOSE op \in Range(ops) : op.key = k).value ELSE secrets[k]]
-----------------------------------------------------------------------------
BeginCall(c, ops) ==
    /\ calls[c] = Idle
    /\ calls' = [calls EXCEPT ![c] = [todo |-> ops, step |-> "load", copy |-> NoSecrets]]
    /\ mixed' = ~Quiet
    /\ everMixed' = (everMixed \/ mixed')
    /\ promised' = Applied(IF Quiet THEN file ELSE promised, ops)
    /\ UNCHANGED file

(* Variant: the timestamp first.                                           *)
Set_TimestampFirst(c, p) ==
    /\ made < MaxMade
    /\ made' = made + 1
    /\ BeginCall(c, <<Write(p, "at", made'), Write(p, "secret", made')>>)
    /\ UNCHANGED marks

(* set(): the secret, then its timestamp.                                  *)
Set(c, p) ==
    /\ made < MaxMade
    /\ made' = made + 1
    /\ BeginCall(c, <<Write(p, "secret", made'), Write(p, "at", made')>>)
    /\ UNCHANGED marks

(* remove(): the secret, then the timestamp if there is one.               *)
RemoveSecret(c, p) ==
    /\ BeginCall(c, <<Write(p, "secret", Absent), Write(p, "at", Absent)>>)
    /\ UNCHANGED <<made, marks>>

MarkRotated(c, p) ==
    /\ made < MaxMade
    /\ made' = made + 1
    /\ marks' = marks \cup {made'}
    /\ BeginCall(c, <<Write(p, "at", made')>>)

(* The inner operation is over, and the next one starts, or the call ends. *)
Advance(call) ==
    IF Len(call.todo) = 1 THEN Idle
    ELSE [todo |-> Tail(call.todo), step |-> "load", copy |-> NoSecrets]

(* Variant: the other secrets are not carried over.                        *)
Load_OwnOnly(c) ==
    LET op == Head(calls[c].todo) IN
    /\ calls[c].step = "load"
    /\ calls' = [calls EXCEPT ![c] =
         IF op.value = Absent /\ file[op.key] = Absent THEN Advance(@)
         ELSE [@ EXCEPT !.step = "truncate", !.copy = [NoSecrets EXCEPT ![op.key] = op.value]]]
    /\ UNCHANGED <<file, made, marks, promised, mixed, everMixed>>

(* loadSecrets, and the change of the copy.  A remove of what is not there *)
(* ends without a write.                                                   *)
Load(c) ==
    LET op == Head(calls[c].todo) IN
    /\ calls[c].step = "load"
    /\ calls' = [calls EXCEPT ![c] =
         IF op.value = Absent /\ file[op.key] = Absent THEN Advance(@)
         ELSE [@ EXCEPT !.step = "truncate", !.copy = [file EXCEPT ![op.key] = op.value]]]
    /\ UNCHANGED <<file, made, marks, promised, mixed, everMixed>>

(* saveSecrets: writeFile opens the file, which empties it, ...            *)
Truncate(c) ==
    /\ calls[c].step = "truncate"
    /\ file' = NoSecrets
    /\ calls' = [calls EXCEPT ![c].step = "fill"]
    /\ UNCHANGED <<made, marks, promised, mixed, everMixed>>

(* ... and writes it.                                                      *)
Fill(c) ==
    /\ calls[c].step = "fill"
    /\ file' = calls[c].copy
    /\ calls' = [calls EXCEPT ![c] = Advance(@)]
    /\ UNCHANGED <<made, marks, promised, mixed, everMixed>>

(* The process ends at any point, and another one opens the file.          *)
Crash ==
    /\ ~Quiet
    /\ calls' = [c \in Callers |-> Idle]
    /\ promised' = file
    /\ UNCHANGED <<file, made, marks, mixed, everMixed>>

CredentialNext ==
    \/ \E c \in Callers :
         \/ \E p \in Providers : Set(c, p) \/ RemoveSecret(c, p) \/ MarkRotated(c, p)
         \/ Load(c) \/ Truncate(c) \/ Fill(c)
    \/ Crash

CredentialSpec == CredentialInit /\ [][CredentialNext]_credentialVars
-----------------------------------------------------------------------------
CredentialTypeOK ==
    /\ file \in [EntryKeys -> 0 .. made]
    /\ promised \in [EntryKeys -> 0 .. made]
    /\ made \in 0 .. MaxMade
    /\ marks \subseteq 1 .. made
    /\ mixed \in BOOLEAN /\ everMixed \in BOOLEAN
    /\ \A c \in Callers :
         /\ calls[c].step \in {"idle", "load", "truncate", "fill"}
         /\ calls[c].copy \in [EntryKeys -> 0 .. made]
         /\ Len(calls[c].todo) \in 0 .. 2

(* A call that nothing overlapped has done exactly what it says, to its    *)
(* own provider and to no other.  Calls that overlap lose updates, and may *)
(* lose the whole file to a read of it while it is empty.                  *)
AloneIsExact == Quiet /\ ~mixed => file = promised

(* A timestamp vouches for the secret: as long as no calls overlap, no     *)
(* crash leaves a timestamp that is newer than its secret, so that stale() *)
(* errs on the safe side.  markRotated says so without a new secret.       *)
TimestampVouches ==
    \A p \in Providers :
        LET at == file[<<p, "at">>]
            secret == file[<<p, "secret">>]
        IN ~everMixed => at = Absent \/ at \in marks \/ secret = Absent \/ secret >= at
=============================================================================
