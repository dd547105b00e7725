-------------------------- MODULE Channels_proofs ---------------------------
(***************************************************************************)
(* Theorems about the channels and the kiosk, for any files, polls,        *)
(* requests, replies, calls and pages.                                     *)
(***************************************************************************)
EXTENDS Channels, Kiosk, SequenceLemmas

-----------------------------------------------------------------------------
(* The requests of the HTTP channel.                                       *)

Record == [status : Http!Statuses, of : Requests]

(* Answers that were written for request r.                                *)
Own(w, r) == w \in Seq(Record) /\ \A i \in 1 .. Len(w) : w[i].of = r

LEMMA NoAnswer == ASSUME NEW r PROVE Own(<<>>, r) /\ Len(<<>>) = 0
BY DEF Own

LEMMA FirstAnswer ==
  ASSUME NEW status \in Http!Statuses, NEW r \in Requests
  PROVE  Own(<<Http!Answer(status, r)>>, r) /\ Len(<<Http!Answer(status, r)>>) = 1
<1>1. Http!Answer(status, r) \in Record
  BY DEF Http!Answer, Record
<1> QED BY <1>1 DEF Own, Http!Answer

LEMMA NextAnswer ==
  ASSUME NEW r \in Requests, NEW w, Own(w, r), NEW status \in Http!Statuses
  PROVE  /\ Own(Append(w, Http!Answer(status, r)), r)
         /\ Len(Append(w, Http!Answer(status, r))) = Len(w) + 1
<1> DEFINE a == Http!Answer(status, r)
<1>1. a \in Record /\ a.of = r
  BY DEF Http!Answer, Record
<1> HIDE DEF a
<1>2. /\ Append(w, a) \in Seq(Record)
      /\ Len(Append(w, a)) = Len(w) + 1
      /\ \A i \in 1 .. Len(w) : Append(w, a)[i] = w[i]
      /\ Append(w, a)[Len(w) + 1] = a
  BY <1>1, AppendProperties DEF Own
<1>3. \A i \in 1 .. Len(Append(w, a)) : Append(w, a)[i].of = r
  BY <1>1, <1>2 DEF Own
<1> QED BY <1>2, <1>3 DEF Own, a

(* What has been written, request by request.                              *)
Answered(w, failed) ==
    /\ w = [r \in Requests |-> w[r]]
    /\ \A r \in Requests : Own(w[r], r) /\ (r \notin failed => Len(w[r]) <= 1)

LEMMA AnsweredIsOneAnswer ==
  /\ Answered(writes, threw) <=> writes \in [Requests -> Seq(Record)] /\ Http!OneAnswer
  /\ Answered(writes', threw') <=> writes' \in [Requests -> Seq(Record)] /\ Http!OneAnswer'
BY DEF Answered, Own, Http!OneAnswer

(* The invariant in these terms.                                           *)
HttpShape ==
    /\ server \in {"down", "up", "closing"}
    /\ conn \in [Requests -> {"none", "reading", "open", "answered"}]
    /\ gone \subseteq Requests
    /\ counter \in Nat
    /\ mailbox \in [Requests -> 0 .. counter]
    /\ subscribed \subseteq Requests
    /\ armed \subseteq Requests
    /\ settled \subseteq Requests
    /\ asked \in [Requests -> Nat]
    /\ threw \subseteq Requests

LEMMA HttpParts ==
  /\ Http!HttpInv <=> HttpShape /\ Answered(writes, threw) /\ Http!RequestsApart
                      /\ Http!NothingLeftBehind
  /\ Http!HttpInv' <=> HttpShape' /\ Answered(writes', threw') /\ Http!RequestsApart'
                      /\ Http!NothingLeftBehind'
<1>1. /\ Http!TypeOK <=> HttpShape /\ writes \in [Requests -> Seq(Record)]
      /\ Http!TypeOK' <=> HttpShape' /\ writes' \in [Requests -> Seq(Record)]
  BY DEF Http!TypeOK, HttpShape, Record
<1> QED BY <1>1, AnsweredIsOneAnswer DEF Http!HttpInv

LEMMA HttpInit == ASSUME Http!Init PROVE Http!HttpInv
<1> USE DEF Http!Init
<1>1. HttpShape
  BY DEF HttpShape
<1>2. \A r \in Requests : writes[r] = <<>>
  OBVIOUS
<1>3. Answered(writes, threw)
  BY <1>2, NoAnswer DEF Answered
<1>4. Http!RequestsApart
  BY <1>2, NoAnswer DEF Http!RequestsApart
<1>5. Http!NothingLeftBehind
  BY DEF Http!NothingLeftBehind
<1> QED BY <1>1, <1>3, <1>4, <1>5, HttpParts

(* Up to the dispatch of its prompt nothing has been made for a request.   *)
LEMMA Unmade ==
  ASSUME Http!HttpInv, NEW r \in Requests, conn[r] \in {"none", "reading"}
  PROVE  /\ mailbox[r] = 0 /\ asked[r] = 0
         /\ r \notin threw \cup settled \cup armed \cup subscribed
         /\ Len(writes[r]) = 0
<1> USE HttpParts DEF HttpShape
<1>1. mailbox[r] = 0 /\ r \notin threw \cup settled
  BY DEF Http!RequestsApart
<1>2. asked[r] = 0 /\ r \notin subscribed /\ Len(writes[r]) = 0
  BY <1>1 DEF Http!RequestsApart
<1> QED BY <1>1, <1>2 DEF Http!NothingLeftBehind

LEMMA AcceptStep ==
  ASSUME Http!HttpInv, NEW r \in Requests, Http!Accept(r) \/ Http!BadBody(r)
  PROVE  Http!HttpInv'
<1> USE HttpParts DEF HttpShape, Http!closureVars
<1>1. {400, 404} \subseteq Http!Statuses
  BY DEF Http!Statuses
<1>2. conn[r] \in {"none", "reading"}
  BY DEF Http!Accept, Http!BadBody
<1>3. UNCHANGED <<server, gone, counter, mailbox, subscribed, armed, settled, asked, threw>>
  BY DEF Http!Accept, Http!BadBody
<1>4. \/ conn' = [conn EXCEPT ![r] = "reading"] /\ writes' = writes
      \/ \E status \in {400, 404} :
            /\ conn' = [conn EXCEPT ![r] = "answered"]
            /\ writes' = [writes EXCEPT ![r] = <<Http!Answer(status, r)>>]
  BY DEF Http!Accept, Http!BadBody
<1>5. Own(writes'[r], r) /\ Len(writes'[r]) = IF conn'[r] = "answered" THEN 1 ELSE 0
  <2>1. Own(writes[r], r) /\ Len(writes[r]) = 0 /\ r \in DOMAIN writes /\ r \in DOMAIN conn
    BY <1>2, Unmade DEF Answered
  <2>2. CASE conn' = [conn EXCEPT ![r] = "reading"] /\ writes' = writes
    BY <2>1, <2>2
  <2>3. ASSUME NEW status \in {400, 404}, conn' = [conn EXCEPT ![r] = "answered"],
               writes' = [writes EXCEPT ![r] = <<Http!Answer(status, r)>>]
        PROVE  Own(writes'[r], r) /\ Len(writes'[r]) = IF conn'[r] = "answered" THEN 1 ELSE 0
    <3>1. writes'[r] = <<Http!Answer(status, r)>> /\ conn'[r] = "answered"
      BY <2>1, <2>3
    <3>2. Own(<<Http!Answer(status, r)>>, r) /\ Len(<<Http!Answer(status, r)>>) = 1
      BY <1>1, FirstAnswer
    <3> QED BY <3>1, <3>2
  <2> QED BY <1>4, <2>2, <2>3
<1>6. \A q \in Requests \ {r} : conn'[q] = conn[q] /\ writes'[q] = writes[q]
  BY <1>4 DEF Answered
<1>7. /\ conn'[r] \in {"reading", "answered"}
      /\ conn' \in [Requests -> {"none", "reading", "open", "answered"}]
  BY <1>4
<1>8. HttpShape'
  BY <1>3, <1>7
<1>9. Http!RequestsApart'
  <2>1. \A p, q \in Requests : mailbox'[p] = mailbox'[q] /\ mailbox'[p] # 0 => p = q
    BY <1>3 DEF Http!RequestsApart
  <2>2. ASSUME NEW q \in Requests
        PROVE  /\ asked'[q] > 0 \/ q \in subscribed' => mailbox'[q] # 0
               /\ conn'[q] \in {"none", "reading"} =>
                    mailbox'[q] = 0 /\ q \notin threw' \cup settled'
               /\ q \notin threw' => Len(writes'[q]) = IF conn'[q] = "answered" THEN 1 ELSE 0
    <3>1. CASE q = r
      <4>1. mailbox[r] = 0 /\ asked[r] = 0 /\ r \notin threw \cup settled \cup subscribed
        BY <1>2, Unmade
      <4> QED BY ONLY <1>3, <1>5, <3>1, <4>1
    <3>2. CASE q # r
      BY <1>3, <1>6, <3>2 DEF Http!RequestsApart
    <3> QED BY <3>1, <3>2
  <2> QED BY <2>1, <2>2 DEF Http!RequestsApart
<1>10. Answered(writes', threw')
  BY <1>3, <1>4, <1>5, <1>6 DEF Answered
<1>11. Http!NothingLeftBehind'
  BY <1>2, <1>3, <1>6, <1>7, Unmade DEF Http!NothingLeftBehind
<1> QED BY <1>8, <1>9, <1>10, <1>11

LEMMA DispatchStep ==
  ASSUME Http!HttpInv, NEW r \in Requests, Http!Dispatch(r)
  PROVE  Http!HttpInv'
<1> USE HttpParts DEF HttpShape
<1>1. {400, 404} \subseteq Http!Statuses
  BY DEF Http!Statuses
<1>2. conn[r] \in {"none", "reading"}
  BY DEF Http!Dispatch
<1>3. /\ mailbox[r] = 0 /\ asked[r] = 0
      /\ r \notin threw \cup settled \cup armed \cup subscribed
      /\ Len(writes[r]) = 0
  BY <1>2, Unmade
<1>4. /\ counter' = counter + 1
      /\ mailbox' = [mailbox EXCEPT ![r] = counter + 1]
      /\ subscribed' = subscribed \cup {r}
      /\ armed' = armed \cup {r}
      /\ UNCHANGED <<server, gone, settled>>
  BY DEF Http!Dispatch
<1>5. \/ /\ asked' = [asked EXCEPT ![r] = 1]
         /\ conn' = [conn EXCEPT ![r] = "open"]
         /\ threw' = threw /\ writes' = writes
      \/ /\ \E n \in {0, 1} : asked' = [asked EXCEPT ![r] = n]
         /\ threw' = threw \cup {r}
         /\ conn' = [conn EXCEPT ![r] = "answered"]
         /\ writes' = [writes EXCEPT ![r] = <<Http!Answer(400, r)>>]
  BY DEF Http!Dispatch
<1>6. Own(writes'[r], r) /\ Len(writes'[r]) = IF conn'[r] = "answered" THEN 1 ELSE 0
  <2>1. Own(writes[r], r) /\ r \in DOMAIN writes /\ r \in DOMAIN conn
    BY DEF Answered
  <2>2. Own(<<Http!Answer(400, r)>>, r) /\ Len(<<Http!Answer(400, r)>>) = 1
    BY <1>1, FirstAnswer
  <2>3. CASE conn' = [conn EXCEPT ![r] = "open"] /\ writes' = writes
    BY <1>3, <2>1, <2>3
  <2>4. CASE /\ conn' = [conn EXCEPT ![r] = "answered"]
             /\ writes' = [writes EXCEPT ![r] = <<Http!Answer(400, r)>>]
    <3>1. writes'[r] = <<Http!Answer(400, r)>> /\ conn'[r] = "answered"
      BY <2>1, <2>4
    <3> QED BY <2>2, <3>1
  <2> QED BY <1>5, <2>3, <2>4
<1>7. \A q \in Requests \ {r} :
         /\ conn'[q] = conn[q] /\ writes'[q] = writes[q] /\ asked'[q] = asked[q]
         /\ q \in threw' <=> q \in threw
  BY <1>5 DEF Answered
<1>8. /\ conn' \in [Requests -> {"none", "reading", "open", "answered"}]
      /\ conn'[r] \in {"open", "answered"}
      /\ conn'[r] = "answered" => r \in threw'
      /\ asked' \in [Requests -> Nat] /\ threw' \subseteq Requests
  BY <1>5
<1>9. /\ counter' \in Nat /\ mailbox' \in [Requests -> 0 .. counter']
      /\ mailbox'[r] = counter + 1
      /\ \A q \in Requests \ {r} : mailbox'[q] = mailbox[q] /\ mailbox[q] <= counter
  BY <1>4
<1>10. HttpShape'
  BY <1>4, <1>8, <1>9
<1>11. Http!RequestsApart'
  <2>1. \A p, q \in Requests : mailbox'[p] = mailbox'[q] /\ mailbox'[p] # 0 => p = q
    <3>1. \A p, q \in Requests : mailbox[p] = mailbox[q] /\ mailbox[p] # 0 => p = q
      BY DEF Http!RequestsApart
    <3>2. counter \in Nat /\ \A q \in Requests : mailbox[q] \in Nat
      BY DEF HttpShape
    <3> QED BY ONLY <1>9, <3>1, <3>2
  <2>2. ASSUME NEW q \in Requests
        PROVE  /\ asked'[q] > 0 \/ q \in subscribed' => mailbox'[q] # 0
               /\ conn'[q] \in {"none", "reading"} =>
                    mailbox'[q] = 0 /\ q \notin threw' \cup settled'
               /\ q \notin threw' => Len(writes'[q]) = IF conn'[q] = "answered" THEN 1 ELSE 0
    <3>1. CASE q = r
      <4>1. counter \in Nat
        BY DEF HttpShape
      <4>2. mailbox'[q] # 0 /\ conn'[q] \notin {"none", "reading"}
        BY <1>8, <1>9, <3>1, <4>1
      <4> QED BY ONLY <1>6, <3>1, <4>2
    <3>2. CASE q # r
      <4>1. /\ mailbox'[q] = mailbox[q] /\ settled' = settled
            /\ q \in subscribed' <=> q \in subscribed
        BY <1>4, <1>9, <3>2
      <4>2. /\ conn'[q] = conn[q] /\ writes'[q] = writes[q] /\ asked'[q] = asked[q]
            /\ q \in threw' <=> q \in threw
        BY <1>7, <3>2
      <4> QED BY <4>1, <4>2 DEF Http!RequestsApart
    <3> QED BY <3>1, <3>2
  <2> QED BY <2>1, <2>2 DEF Http!RequestsApart
<1>12. Answered(writes', threw')
  BY <1>5, <1>6, <1>7 DEF Answered
<1>13. Http!NothingLeftBehind'
  BY <1>3, <1>4, <1>7, <1>8 DEF Http!NothingLeftBehind
<1> QED BY <1>10, <1>11, <1>12, <1>13

(* A reply or the timer settles a request: at most the one it is for, and  *)
(* only if that one was not settled before.                                *)
LEMMA FinishStep ==
  ASSUME Http!HttpInv, NEW r \in Requests, NEW R \in SUBSET {r},
         NEW status \in Http!Statuses,
         R \subseteq armed,
         Http!Finish(R, Http!Answer(status, r)),
         asked' = asked \/ (asked[r] > 0 /\ asked' = [asked EXCEPT ![r] = @ + 1]),
         UNCHANGED <<server, gone, counter, mailbox, threw>>
  PROVE  Http!HttpInv'
<1> USE HttpParts DEF HttpShape
<1>1. /\ settled' = settled \cup R
      /\ armed' = armed \ R
      /\ subscribed' = subscribed \ R
      /\ conn' = [q \in Requests |-> IF q \in R THEN "answered" ELSE conn[q]]
      /\ writes' = [q \in Requests |-> IF q \in R THEN Append(writes[q], Http!Answer(status, r))
                                       ELSE writes[q]]
  BY DEF Http!Finish
<1>2. \A q \in R : q = r /\ (q \notin threw => conn[q] = "open")
                   /\ conn[q] \notin {"none", "reading"}
  <2> TAKE q \in R
  <2>1. q = r /\ (q \notin threw => conn[q] = "open")
    BY DEF Http!NothingLeftBehind
  <2> QED BY <2>1, Unmade
<1>3. \A q \in R : Own(writes'[q], q) /\ Len(writes'[q]) = Len(writes[q]) + 1
  BY <1>1, <1>2, NextAnswer DEF Answered
<1>4. \A q \in Requests \ R : conn'[q] = conn[q] /\ writes'[q] = writes[q]
  BY <1>1
<1>5. \A q \in R : conn'[q] = "answered"
  BY <1>1
<1>6. /\ conn' \in [Requests -> {"none", "reading", "open", "answered"}]
      /\ asked' \in [Requests -> Nat]
      /\ \A q \in Requests : asked'[q] > 0 => asked[q] > 0
  <2>1. conn' \in [Requests -> {"none", "reading", "open", "answered"}]
    BY <1>1
  <2>2. CASE asked' = asked
    BY <2>1, <2>2
  <2>3. CASE asked[r] > 0 /\ asked' = [asked EXCEPT ![r] = @ + 1]
    BY <2>1, <2>3
  <2> QED BY <2>2, <2>3
<1>7. HttpShape'
  BY <1>1, <1>6
<1>8. Http!RequestsApart'
  <2>1. \A p, q \in Requests : mailbox'[p] = mailbox'[q] /\ mailbox'[p] # 0 => p = q
    BY DEF Http!RequestsApart
  <2>2. \A q \in Requests :
          /\ asked'[q] > 0 \/ q \in subscribed' => mailbox'[q] # 0
          /\ conn'[q] \in {"none", "reading"} => mailbox'[q] = 0 /\ q \notin threw' \cup settled'
          /\ q \notin threw' => Len(writes'[q]) = IF conn'[q] = "answered" THEN 1 ELSE 0
    BY <1>1, <1>2, <1>3, <1>4, <1>5, <1>6 DEF Http!RequestsApart
  <2> QED BY <2>1, <2>2 DEF Http!RequestsApart
<1>9. Answered(writes', threw')
  <2>1. \A q \in R : q \notin threw' => Len(writes'[q]) <= 1
    BY <1>2, <1>3 DEF Http!RequestsApart
  <2> QED BY <1>1, <1>3, <1>4, <2>1 DEF Answered
<1>10. Http!NothingLeftBehind'
  BY <1>1, <1>4, <1>5 DEF Http!NothingLeftBehind
<1> QED BY <1>7, <1>8, <1>9, <1>10

LEMMA HttpStep == Http!HttpInv /\ [Http!Next]_(Http!vars) => Http!HttpInv'
<1> SUFFICES ASSUME Http!HttpInv, [Http!Next]_(Http!vars) PROVE Http!HttpInv'
  OBVIOUS
<1>0. Http!HttpInv
  OBVIOUS
<1>1. {200, 500, 504} \subseteq Http!Statuses
  BY DEF Http!Statuses
<1>2. ASSUME NEW q \in Requests, NEW status \in {200, 500}, Http!Reply(q, status)
      PROVE  Http!HttpInv'
  <2> DEFINE R == {r \in subscribed \ settled : mailbox[r] = mailbox[q]}
  <2>1. asked[q] > 0
    BY <1>2 DEF Http!Reply, Http!HttpInv, Http!TypeOK
  <2>2. R \subseteq {q} /\ R \subseteq armed
    BY <2>1 DEF Http!HttpInv, Http!TypeOK, Http!RequestsApart, Http!NothingLeftBehind
  <2>3. /\ Http!Finish(R, Http!Answer(status, q))
        /\ asked' = [asked EXCEPT ![q] = @ + 1]
        /\ UNCHANGED <<server, gone, counter, mailbox, threw>>
    BY <1>2 DEF Http!Reply
  <2> HIDE DEF R
  <2>4. R \in SUBSET {q} /\ status \in Http!Statuses
    BY <1>1, <2>2
  <2> QED BY ONLY <1>0, <2>1, <2>2, <2>3, <2>4, FinishStep
<1>3. ASSUME NEW r \in Requests, Http!TimerFires(r) PROVE Http!HttpInv'
  <2>1. /\ Http!Finish({r}, Http!Answer(504, r)) /\ r \in armed
        /\ UNCHANGED <<server, gone, counter, mailbox, threw, asked>>
    BY <1>3 DEF Http!TimerFires
  <2> QED BY <1>1, <2>1, FinishStep
<1>4. ASSUME \/ Http!Start \/ Http!Stop \/ Http!Closes \/ UNCHANGED Http!vars
             \/ \E r \in Requests : Http!HangUp(r)
      PROVE  Http!HttpInv'
  <2>1. /\ UNCHANGED <<conn, counter, mailbox, subscribed, armed, settled, asked, threw, writes>>
        /\ server' \in {"down", "up", "closing"} /\ gone' \subseteq Requests
    BY <1>4 DEF Http!HttpInv, Http!TypeOK, Http!Start, Http!Stop, Http!Closes, Http!HangUp,
                Http!closureVars, Http!vars
  <2> QED BY <2>1 DEF Http!HttpInv, Http!TypeOK, Http!RequestsApart, Http!OneAnswer,
                      Http!NothingLeftBehind
<1> QED BY <1>2, <1>3, <1>4, AcceptStep, DispatchStep DEF Http!Next

LEMMA HttpInvariance == ChannelSpec => []Http!HttpInv
<1>1. ChannelInit => Http!HttpInv
  BY HttpInit DEF ChannelInit
<1>2. Http!HttpInv /\ [ChannelNext]_<<vars, httpVars, id>> => Http!HttpInv'
  <2>1. UNCHANGED httpVars => UNCHANGED Http!vars
    BY DEF httpVars, Http!vars
  <2> QED BY <2>1, HttpStep DEF ChannelNext
<1> QED BY <1>1, <1>2, PTL DEF ChannelSpec

(* A request gets one answer, its own, whatever late and repeated replies, *)
(* timers and hang-ups do, for any requests.                               *)
THEOREM AnsweredOnce == ChannelSpec => []OneAnswer
<1>1. Http!HttpInv => OneAnswer
  BY DEF Http!HttpInv, OneAnswer
<1> QED BY <1>1, HttpInvariance, PTL

(* A settled request leaves no subscription and no timer, for any requests.*)
THEOREM LeavesNothing == ChannelSpec => []NothingLeftBehind
<1>1. Http!HttpInv => NothingLeftBehind
  BY DEF Http!HttpInv, NothingLeftBehind
<1> QED BY <1>1, HttpInvariance, PTL
-----------------------------------------------------------------------------
(* What the file-watch channel makes of a text: split("\n") one character  *)
(* at a time.                                                              *)
Pieces(C) == [lines : Seq(Seq(C)), rest : Seq(C)]
NoPieces == [lines |-> <<>>, rest |-> <<>>]
Cut(acc, c) ==
    IF c = "nl" THEN [lines |-> Append(acc.lines, acc.rest), rest |-> <<>>]
    ELSE [acc EXCEPT !.rest = Append(@, c)]

Cuts(h, text) ==
    h[0] = NoPieces /\ \A i \in 1 .. Len(text) : h[i] = Cut(h[i - 1], text[i])

LEMMA NoPiecesType == ASSUME NEW C PROVE NoPieces \in Pieces(C)
BY EmptySeq DEF NoPieces, Pieces

LEMMA CutType ==
  ASSUME NEW C, NEW acc \in Pieces(C), NEW c \in C
  PROVE  /\ Cut(acc, c) \in Pieces(C)
         /\ Cut(acc, c).lines = IF c = "nl" THEN Append(acc.lines, acc.rest) ELSE acc.lines
         /\ Cut(acc, c).rest = IF c = "nl" THEN <<>> ELSE Append(acc.rest, c)
<1>1. acc.lines \in Seq(Seq(C)) /\ acc.rest \in Seq(C)
  BY DEF Pieces
<1>2. Append(acc.lines, acc.rest) \in Seq(Seq(C)) /\ <<>> \in Seq(C) /\ Append(acc.rest, c) \in Seq(C)
  BY <1>1, AppendProperties, EmptySeq
<1>3. CASE c = "nl"
  BY <1>2, <1>3 DEF Cut, Pieces
<1>4. CASE c # "nl"
  <2>1. Cut(acc, c) = [lines |-> acc.lines, rest |-> Append(acc.rest, c)]
    BY <1>4 DEF Cut, Pieces
  <2> QED BY <1>1, <1>2, <1>4, <2>1 DEF Pieces
<1> QED BY <1>3, <1>4

LEMMA SplitCuts ==
  ASSUME NEW C, NEW text \in Seq(C)
  PROVE  \E h \in [0 .. Len(text) -> Pieces(C)] : Cuts(h, text) /\ Split(text) = h[Len(text)]
<1> DEFINE n == Len(text)
           step == [p \in Pieces(C) \X (1 .. n) |-> Cut(p[1], text[p[2]])]
           G(f) == [s \in SUBSET (1 .. n) |->
                      IF s = {} THEN NoPieces ELSE Cut(f[s \ {Max(s)}], text[Max(s)])]
           iter == CHOOSE f : f = G(f)
           h == [i \in 0 .. n |-> iter[1 .. i]]
<1>1. n \in Nat /\ DOMAIN text = 1 .. n /\ \A i \in 1 .. n : text[i] \in C
  OBVIOUS
<1>2. NoPieces \in Pieces(C)
  BY NoPiecesType
<1>3. \A acc \in Pieces(C), i \in 1 .. n : step[<<acc, i>>] = Cut(acc, text[i])
  OBVIOUS
<1>4. step \in [Pieces(C) \X (1 .. n) -> Pieces(C)]
  <2>1. \A p \in Pieces(C) \X (1 .. n) : Cut(p[1], text[p[2]]) \in Pieces(C)
    BY <1>1, CutType
  <2> QED BY <2>1
<1> HIDE DEF step
<1>5. \E f : f = G(f)
  <2> HIDE DEF iter, h, n
  <2>1. PICK g \in [SUBSET (1 .. n) -> Pieces(C)] : FoldsWith(g, n, NoPieces, step)
    BY <1>1, <1>2, <1>4, FoldExists
  <2>2. \A s \in SUBSET (1 .. n) :
           g[s] = IF s = {} THEN NoPieces ELSE Cut(g[s \ {Max(s)}], text[Max(s)])
    <3> TAKE s \in SUBSET (1 .. n)
    <3>1. s # {} => Max(s) \in 1 .. n
      BY <1>1, LargestExists
    <3>2. g[s \ {Max(s)}] \in Pieces(C)
      BY <2>1
    <3> QED BY <1>3, <2>1, <3>1, <3>2 DEF FoldsWith
  <2>3. g = G(g)
    BY <2>2
  <2> HIDE DEF G
  <2> QED BY <2>3
<1>6. iter = G(iter)
  <2> HIDE DEF G
  <2> QED BY <1>5
<1>7. Split(text) = h[n]
  <2>1. Split(text) = iter[1 .. n]
    BY <1>1 DEF Split, FoldLeft, MapThenFoldSet, NoPieces, Cut
  <2> HIDE DEF iter
  <2> QED BY <1>1, <2>1
<1> HIDE DEF iter
<1>8. \A s \in SUBSET (1 .. n) :
         iter[s] = IF s = {} THEN NoPieces ELSE Cut(iter[s \ {Max(s)}], text[Max(s)])
  BY <1>6
<1>9. h[0] = NoPieces /\ \A i \in 1 .. n : h[i] = Cut(h[i - 1], text[i])
  <2>1. h[0] = NoPieces
    <3>1. 1 .. 0 = {} /\ {} \in SUBSET (1 .. n) /\ 0 \in 0 .. n
      BY <1>1
    <3>2. iter[{}] = NoPieces
      BY <1>8, <3>1
    <3>3. h[0] = iter[1 .. 0]
      BY <3>1
    <3> QED BY <3>1, <3>2, <3>3
  <2>2. ASSUME NEW i \in 1 .. n PROVE h[i] = Cut(h[i - 1], text[i])
    <3>1. /\ 1 .. i \in SUBSET (1 .. n) /\ i \in 1 .. i /\ i \in Nat
          /\ (1 .. i) \ {i} = 1 .. i - 1
          /\ i \in 0 .. n /\ i - 1 \in 0 .. n
      BY <1>1
    <3>2. Max(1 .. i) = i
      BY <3>1, LargestOf
    <3>3. iter[1 .. i] = Cut(iter[1 .. i - 1], text[i])
      BY <1>8, <3>1, <3>2
    <3> QED BY <3>1, <3>3
  <2> QED BY <2>1, <2>2
<1>10. \A i \in 0 .. n : h[i] \in Pieces(C)
  <2> DEFINE P == {i \in 0 .. n : h[i] \in Pieces(C)}
  <2> HIDE DEF h
  <2>1. 0 \in P
    BY <1>1, <1>2, <1>9
  <2>2. ASSUME NEW i \in 0 .. n, i < n, i \in P PROVE i + 1 \in P
    <3>1. i + 1 \in 1 .. n /\ (i + 1) - 1 = i /\ i + 1 \in 0 .. n
      BY <1>1, <2>2
    <3>2. h[i + 1] = Cut(h[i], text[i + 1])
      BY <1>9, <3>1
    <3> QED BY <1>1, <2>2, <3>1, <3>2, CutType
  <2> HIDE DEF P
  <2>3. \A i \in 0 .. n : i \in P
    BY <1>1, <2>1, <2>2, UpTo
  <2> QED BY <2>3 DEF P
<1>11. h \in [0 .. n -> Pieces(C)]
  BY <1>10
<1> HIDE DEF h
<1> QED BY <1>7, <1>9, <1>11 DEF Cuts

LEMMA CutsAgree ==
  ASSUME NEW text, Len(text) \in Nat, NEW g, NEW h, Cuts(g, text), Cuts(h, text)
  PROVE  \A i \in 0 .. Len(text) : g[i] = h[i]
<1> DEFINE P == {i \in 0 .. Len(text) : g[i] = h[i]}
<1>1. 0 \in P
  BY DEF Cuts
<1>2. ASSUME NEW i \in 0 .. Len(text), i < Len(text), i \in P PROVE i + 1 \in P
  <2>1. i + 1 \in 1 .. Len(text) /\ (i + 1) - 1 = i /\ i + 1 \in 0 .. Len(text)
    BY <1>2
  <2>2. g[i + 1] = Cut(g[i], text[i + 1]) /\ h[i + 1] = Cut(h[i], text[i + 1])
    BY <2>1 DEF Cuts
  <2> QED BY <1>2, <2>1, <2>2
<1> HIDE DEF P
<1>3. \A i \in 0 .. Len(text) : i \in P
  BY <1>1, <1>2, UpTo
<1> QED BY <1>3 DEF P

LEMMA SplitEmpty == Split(<<>>) = NoPieces
<1>1. <<>> \in Seq({}) /\ Len(<<>>) = 0
  BY EmptySeq
<1>2. PICK h : Cuts(h, <<>>) /\ Split(<<>>) = h[Len(<<>>)]
  BY <1>1, SplitCuts
<1> QED BY <1>1, <1>2 DEF Cuts

LEMMA SplitHasType == ASSUME NEW C, NEW text \in Seq(C) PROVE Split(text) \in Pieces(C)
<1>1. Len(text) \in 0 .. Len(text)
  OBVIOUS
<1> QED BY <1>1, SplitCuts

LEMMA SplitAppend ==
  ASSUME NEW C, NEW text \in Seq(C), NEW c \in C
  PROVE  Split(Append(text, c)) = Cut(Split(text), c)
<1> DEFINE n == Len(text)
           longer == Append(text, c)
<1>1. /\ n \in Nat /\ longer \in Seq(C) /\ Len(longer) = n + 1
      /\ longer[n + 1] = c /\ \A i \in 1 .. n : longer[i] = text[i]
  BY AppendProperties
<1> HIDE DEF longer
<1>2. PICK g \in [0 .. n -> Pieces(C)] : Cuts(g, text) /\ Split(text) = g[n]
  BY SplitCuts
<1>3. PICK h \in [0 .. Len(longer) -> Pieces(C)] :
         Cuts(h, longer) /\ Split(longer) = h[Len(longer)]
  BY <1>1, SplitCuts
<1> HIDE DEF n
<1>4. Cuts(h, text)
  <2>1. \A i \in 1 .. n : i \in 1 .. Len(longer)
    BY <1>1
  <2> QED BY <1>1, <1>3, <2>1 DEF Cuts, n
<1>5. h[n] = g[n]
  <2>1. n \in 0 .. n
    BY <1>1
  <2> QED BY <1>1, <1>2, <1>4, <2>1, CutsAgree DEF n
<1>6. h[n + 1] = Cut(h[n], c)
  <2>1. n + 1 \in 1 .. Len(longer) /\ (n + 1) - 1 = n
    BY <1>1
  <2> QED BY <1>1, <1>3, <2>1 DEF Cuts
<1> QED BY <1>1, <1>2, <1>3, <1>5, <1>6 DEF longer

(* Neither the lines nor the rest have a newline.                          *)
LEMMA SplitType ==
  ASSUME NEW C, NEW text \in Seq(C)
  PROVE  Split(text) \in Pieces(C \ {"nl"})
<1> DEFINE P == {t \in Seq(C) : Split(t) \in Pieces(C \ {"nl"})}
<1>1. <<>> \in P
  <2>1. Split(<<>>) \in Pieces(C \ {"nl"}) /\ <<>> \in Seq(C)
    BY SplitEmpty, NoPiecesType, EmptySeq
  <2> QED BY <2>1
<1>2. ASSUME NEW t \in Seq(C), NEW c \in C, t \in P PROVE Append(t, c) \in P
  <2>1. Split(Append(t, c)) = Cut(Split(t), c) /\ Append(t, c) \in Seq(C)
    BY SplitAppend, AppendProperties
  <2>2. Split(t) \in Pieces(C \ {"nl"})
    BY <1>2
  <2>3. CASE c = "nl"
    <3>1. /\ Split(t).lines \in Seq(Seq(C \ {"nl"})) /\ Split(t).rest \in Seq(C \ {"nl"})
          /\ <<>> \in Seq(C \ {"nl"})
      BY <2>2, EmptySeq DEF Pieces
    <3>2. Append(Split(t).lines, Split(t).rest) \in Seq(Seq(C \ {"nl"}))
      BY <3>1, AppendProperties
    <3>3. Cut(Split(t), c) = [lines |-> Append(Split(t).lines, Split(t).rest), rest |-> <<>>]
      BY <2>3 DEF Cut
    <3>4. Cut(Split(t), c) \in Pieces(C \ {"nl"})
      BY <3>1, <3>2, <3>3 DEF Pieces
    <3> QED BY <2>1, <3>4
  <2>4. CASE c # "nl"
    <3>1. Cut(Split(t), c) \in Pieces(C \ {"nl"})
      BY <2>2, <2>4, CutType
    <3> QED BY <2>1, <3>1
  <2> QED BY <2>3, <2>4
<1> HIDE DEF P
<1>3. text \in P
  BY <1>1, <1>2, SeqUpTo
<1> QED BY <1>3 DEF P

(* A text without a newline is no line yet.                                *)
LEMMA SplitRest ==
  ASSUME NEW C, "nl" \notin C, NEW text \in Seq(C)
  PROVE  Split(text) = [lines |-> <<>>, rest |-> text]
<1> DEFINE P == {t \in Seq(C) : Split(t) = [lines |-> <<>>, rest |-> t]}
<1>1. <<>> \in P
  BY SplitEmpty, EmptySeq DEF NoPieces
<1>2. ASSUME NEW t \in Seq(C), NEW c \in C, t \in P PROVE Append(t, c) \in P
  <2>1. Split(Append(t, c)) = Cut(Split(t), c) /\ Append(t, c) \in Seq(C)
    BY SplitAppend, AppendProperties
  <2>2. Split(t) = [lines |-> <<>>, rest |-> t] /\ c # "nl"
    BY <1>2
  <2>3. Cut([lines |-> <<>>, rest |-> t], c) = [lines |-> <<>>, rest |-> Append(t, c)]
    BY <2>2 DEF Cut
  <2> QED BY <2>1, <2>2, <2>3
<1> HIDE DEF P
<1>3. text \in P
  BY <1>1, <1>2, SeqUpTo
<1> QED BY <1>3 DEF P

(* Reading a text in two goes, the rest of the first kept for the second,  *)
(* gives the lines of the whole.                                           *)
LEMMA SplitConcat ==
  ASSUME NEW C, NEW head \in Seq(C), NEW tail \in Seq(C)
  PROVE  /\ Split(head \o tail).lines =
              Split(head).lines \o Split(Split(head).rest \o tail).lines
         /\ Split(head \o tail).rest = Split(Split(head).rest \o tail).rest
<1> DEFINE L == Split(head).lines
           r == Split(head).rest
           M(t) == Split(r \o t)
           Good(t) == Split(head \o t) = [lines |-> L \o M(t).lines, rest |-> M(t).rest]
           P == {t \in Seq(C) : Good(t)}
<1>1. L \in Seq(Seq(C)) /\ r \in Seq(C) /\ Split(head) = [lines |-> L, rest |-> r]
  BY SplitHasType DEF Pieces
<1>2. r \in Seq(C \ {"nl"})
  BY SplitType DEF Pieces
<1> HIDE DEF L, r
<1>3. <<>> \in P
  <2>1. head \o <<>> = head /\ r \o <<>> = r /\ <<>> \in Seq(C) /\ L \o <<>> = L
    BY <1>1, ConcatEmptySeq, EmptySeq
  <2>2. Split(r) = [lines |-> <<>>, rest |-> r]
    <3>1. "nl" \notin C \ {"nl"}
      OBVIOUS
    <3> QED BY <1>2, <3>1, SplitRest
  <2>3. Good(<<>>)
    BY <1>1, <2>1, <2>2
  <2> QED BY <2>1, <2>3
<1>4. ASSUME NEW t \in Seq(C), NEW c \in C, t \in P PROVE Append(t, c) \in P
  <2>1. /\ head \o Append(t, c) = Append(head \o t, c)
        /\ r \o Append(t, c) = Append(r \o t, c)
        /\ head \o t \in Seq(C) /\ r \o t \in Seq(C) /\ Append(t, c) \in Seq(C)
    <3>1. t \in Seq(C) /\ c \in C /\ head \in Seq(C) /\ r \in Seq(C)
      BY <1>1, <1>4
    <3> HIDE DEF r
    <3>2. head \o Append(t, c) = Append(head \o t, c)
      BY ONLY <3>1, ConcatAppend
    <3>3. r \o Append(t, c) = Append(r \o t, c)
      BY ONLY <3>1, ConcatAppend
    <3>4. head \o t \in Seq(C) /\ r \o t \in Seq(C)
      BY ONLY <3>1, ConcatProperties
    <3>5. Append(t, c) \in Seq(C)
      BY ONLY <3>1, AppendProperties
    <3> QED BY ONLY <3>2, <3>3, <3>4, <3>5
  <2>2. /\ Split(head \o Append(t, c)) = Cut(Split(head \o t), c)
        /\ M(Append(t, c)) = Cut(M(t), c)
        /\ Split(head \o t) \in Pieces(C) /\ M(t) \in Pieces(C)
    BY <2>1, SplitAppend, SplitHasType
  <2>3. Good(t)
    BY <1>4
  <2> HIDE DEF M
  <2>4. M(t).lines \in Seq(Seq(C)) /\ M(t).rest \in Seq(C)
    BY <2>2 DEF Pieces
  <2>5. L \o Append(M(t).lines, M(t).rest) = Append(L \o M(t).lines, M(t).rest)
    <3> DEFINE Q == Seq(C)
               lines == M(t).lines
               rest == M(t).rest
    <3>1. L \in Seq(Q) /\ lines \in Seq(Q) /\ rest \in Q
      BY <1>1, <2>4
    <3> HIDE DEF Q, lines, rest
    <3>2. L \o Append(lines, rest) = Append(L \o lines, rest)
      BY ONLY <3>1, ConcatAppend
    <3> QED BY <3>2 DEF lines, rest
  <2>6. CASE c = "nl"
    <3>1. Cut(M(t), c) = [lines |-> Append(M(t).lines, M(t).rest), rest |-> <<>>]
      BY <2>6 DEF Cut
    <3>2. Cut(Split(head \o t), c) =
            [lines |-> Append(L \o M(t).lines, M(t).rest), rest |-> <<>>]
      BY <2>3, <2>6 DEF Cut
    <3>3. /\ M(Append(t, c)).lines = Append(M(t).lines, M(t).rest)
          /\ M(Append(t, c)).rest = <<>>
      BY <2>2, <3>1
    <3>4. Good(Append(t, c))
      BY <2>2, <2>5, <3>2, <3>3
    <3> QED BY <2>1, <3>4
  <2>7. CASE c # "nl"
    <3>1. Cut(M(t), c) = [lines |-> M(t).lines, rest |-> Append(M(t).rest, c)]
      BY <2>2, <2>7 DEF Cut, Pieces
    <3> DEFINE l == L \o M(t).lines
               b == M(t).rest
    <3>2. Split(head \o t) = [lines |-> l, rest |-> b]
      BY <2>3
    <3> HIDE DEF l, b
    <3>3. Cut([lines |-> l, rest |-> b], c) = [lines |-> l, rest |-> Append(b, c)]
      BY <2>7 DEF Cut
    <3>4. M(Append(t, c)).lines = M(t).lines /\ M(Append(t, c)).rest = Append(b, c)
      BY <2>2, <3>1 DEF b
    <3>5. Split(head \o Append(t, c)) = [lines |-> l, rest |-> Append(b, c)]
      BY <2>2, <3>2, <3>3
    <3>6. Good(Append(t, c))
      BY <3>4, <3>5 DEF l
    <3> QED BY <2>1, <3>6
  <2> QED BY <2>6, <2>7
<1> HIDE DEF P
<1>5. tail \in P
  BY <1>3, <1>4, SeqUpTo
<1>6. Good(tail)
  BY <1>5 DEF P
<1>7. /\ Split(head \o tail).lines = L \o M(tail).lines
      /\ Split(head \o tail).rest = M(tail).rest
  <2> HIDE DEF M
  <2> QED BY <1>6
<1> QED BY <1>7 DEF L, r

-----------------------------------------------------------------------------
(* The file-watch channel.                                                 *)

(* A text is made of symbols and newlines, ...                             *)
LEMMA TextType ==
  ASSUME NEW bytes \in Seq(Bytes)
  PROVE  Text(bytes) \in Seq(Symbols \cup {"nl"})
<1> DEFINE C == Symbols \cup {"nl"}
           pieces == [i \in 1 .. Len(bytes) |-> Symbol(bytes, i)]
<1>1. \A i \in 1 .. Len(bytes) : Symbol(bytes, i) \in Seq(C)
  <2> TAKE i \in 1 .. Len(bytes)
  <2>1. bytes[i] \in Bytes
    OBVIOUS
  <2>2. {"U", "?"} \subseteq C /\ (bytes[i] \notin {"u1", "u2"} => bytes[i] \in C)
    BY <2>1 DEF Symbols
  <2>3. Symbol(bytes, i) \in {<<"U">>, <<>>, <<"?">>, <<bytes[i]>>}
        /\ (bytes[i] \in {"u1", "u2"} => Symbol(bytes, i) \in {<<"U">>, <<>>, <<"?">>})
    BY DEF Symbol
  <2> HIDE DEF C
  <2>4. <<"U">> \in Seq(C) /\ <<"?">> \in Seq(C) /\ <<>> \in Seq(C)
        /\ (bytes[i] \notin {"u1", "u2"} => <<bytes[i]>> \in Seq(C))
    BY <2>2, EmptySeq
  <2> QED BY <2>3, <2>4
<1> HIDE DEF C
<1>2. pieces \in Seq(Seq(C))
  BY <1>1
<1> HIDE DEF pieces
<1>3. FlattenSeq(pieces) \in Seq(C)
  BY <1>2, FlattenType
<1> QED BY <1>3 DEF Text, pieces, C

(* ... and one of single bytes is what these say.                          *)
LEMMA AsciiText ==
  ASSUME Bytes \cap {"u1", "u2"} = {}, NEW bytes \in Seq(Bytes)
  PROVE  Text(bytes) = bytes
<1>1. \A i \in 1 .. Len(bytes) : Symbol(bytes, i) = <<bytes[i]>>
  BY DEF Symbol
<1>2. [i \in 1 .. Len(bytes) |-> Symbol(bytes, i)] = [i \in 1 .. Len(bytes) |-> <<bytes[i]>>]
  BY <1>1
<1> QED BY <1>2, FlattenSingletons DEF Text

LEMMA EmptyText == Text(<<>>) = <<>>
<1> DEFINE s == [i \in 1 .. Len(<<>>) |-> Symbol(<<>>, i)]
<1>1. s = <<>> /\ Len(s) = 0
  OBVIOUS
<1> HIDE DEF s
<1>2. FlattenSeq(s) = s
  BY <1>1 DEF FlattenSeq
<1> QED BY <1>1, <1>2 DEF Text, s

LEMMA FileInit == ASSUME Init PROVE FileWatchInv /\ EachLineOnce
<1> USE DEF Init
<1>1. /\ file = <<>> /\ residual = <<>> /\ prompts = <<>> /\ lost = {} /\ out = <<>>
      /\ poll \in [Polls -> [pc : {"idle", "stat", "read"}, at : Nat, length : Nat]]
      /\ \A s \in Polls : poll[s] = NoPoll
  BY DEF NoPoll
<1>2. TypeOK
  <2>1. /\ file \in Seq(Bytes) /\ residual \in Seq(Symbols)
        /\ prompts \in Seq(Seq(Symbols)) /\ out \in Seq(Replies)
    BY <1>1, EmptySeq
  <2> QED BY <1>1, <2>1 DEF TypeOK
<1>3. OnePoll
  BY <1>1 DEF OnePoll, Idle
<1> QED BY <1>1, <1>2, <1>3 DEF FileWatchInv, EachLineOnce, ReadsInPlace

(* Steps that leave the input side alone.                                  *)
LEMMA ReplyStep ==
  ASSUME FileWatchInv, \/ \E r \in Replies : Reply(r) \/ WriteLands(r)
                       \/ UNCHANGED vars
  PROVE  FileWatchInv' /\ (EachLineOnce => EachLineOnce')
<1>1. UNCHANGED <<file, truncated, phase, offset, residual, polling, poll, unhandled,
                  prompts, lost, from>>
  BY DEF Reply, WriteLands, readVars, historyVars, vars
<1>2. pending' \subseteq Replies /\ out' \in Seq(Replies)
  <2>1. pending \subseteq Replies /\ out \in Seq(Replies)
    BY DEF FileWatchInv, TypeOK
  <2>2. ASSUME NEW r \in Replies, Reply(r) \/ WriteLands(r)
        PROVE  pending' \subseteq Replies /\ out' \in Seq(Replies)
    <3>1. Append(out, r) \in Seq(Replies)
      BY <2>1, AppendProperties
    <3> QED BY <2>1, <2>2, <3>1 DEF Reply, WriteLands
  <2> QED BY <2>1, <2>2 DEF vars
<1>3. TypeOK'
  BY <1>1, <1>2 DEF FileWatchInv, TypeOK
<1>4. OnePoll' /\ ReadsInPlace'
  BY <1>1 DEF FileWatchInv, OnePoll, ReadsInPlace, Idle
<1>5. EachLineOnce => EachLineOnce'
  BY <1>1 DEF EachLineOnce, ReadText
<1> QED BY <1>3, <1>4, <1>5 DEF FileWatchInv

(* What has been read is in place.                                         *)
LEMMA InPlace ==
  ASSUME FileWatchInv
  PROVE  /\ file \in Seq(Bytes) /\ Len(file) \in Nat
         /\ \A i \in 1 .. Len(file) : file[i] \in Bytes
         /\ offset \in Nat /\ from \in Nat
         /\ phase = "watching" /\ ~truncated =>
               /\ from <= offset /\ offset <= Len(file)
               /\ ReadText = Text(SubSeq(file, from + 1, offset))
<1>1. file \in Seq(Bytes) /\ offset \in Nat /\ from \in Nat
  BY DEF FileWatchInv, TypeOK, ReadsInPlace
<1>2. Len(file) \in Nat /\ \A i \in 1 .. Len(file) : file[i] \in Bytes
  BY <1>1
<1>3. phase = "watching" /\ ~truncated => from <= offset /\ offset <= Len(file)
  BY DEF FileWatchInv, ReadsInPlace
<1>4. offset <= Len(file) => (IF offset < Len(file) THEN offset ELSE Len(file)) = offset
  BY <1>1, <1>2
<1> QED BY <1>1, <1>2, <1>3, <1>4 DEF ReadText

(* The file grows or is cut short.                                         *)
LEMMA TruncateStep ==
  ASSUME FileWatchInv, Truncate
  PROVE  FileWatchInv' /\ EachLineOnce'
<1>1. /\ file' = <<>> /\ truncated' = TRUE /\ <<>> \in Seq(Bytes)
      /\ UNCHANGED <<phase, offset, residual, polling, poll, unhandled, prompts, lost, from,
                      pending, out>>
  BY EmptySeq DEF Truncate, readVars, replyVars
<1>2. TypeOK'
  BY <1>1 DEF FileWatchInv, TypeOK
<1>3. OnePoll' /\ ReadsInPlace'
  BY <1>1 DEF FileWatchInv, OnePoll, ReadsInPlace, Idle
<1> QED BY <1>1, <1>2, <1>3 DEF FileWatchInv, EachLineOnce

LEMMA GrowStep ==
  ASSUME FileWatchInv, NEW b \in Bytes, Grow(b)
  PROVE  FileWatchInv' /\ (EachLineOnce => EachLineOnce')
<1>1. /\ UNCHANGED <<phase, offset, residual, polling, poll, unhandled, prompts, lost, from,
                      truncated, pending, out>>
      /\ file' = Append(file, b)
  BY DEF Grow, readVars, replyVars, historyVars
<1>2. /\ file' \in Seq(Bytes) /\ Len(file') = Len(file) + 1
      /\ \A i \in 1 .. Len(file) : file'[i] = file[i]
  BY <1>1, InPlace, AppendProperties
<1>3. TypeOK'
  BY <1>1, <1>2 DEF FileWatchInv, TypeOK
<1>4. OnePoll'
  BY <1>1 DEF FileWatchInv, OnePoll, Idle
<1>5. ReadsInPlace'
  <2>1. \A s \in Polls : poll[s].length \in Nat
    BY DEF FileWatchInv, TypeOK
  <2>2. Len(file) \in Nat /\ offset \in Nat
    BY InPlace
  <2> QED BY <1>1, <1>2, <2>1, <2>2 DEF FileWatchInv, ReadsInPlace
<1>6. FileWatchInv'
  BY <1>3, <1>4, <1>5 DEF FileWatchInv
<1>7. ASSUME phase = "watching", ~truncated PROVE ReadText' = ReadText
  <2>1. from <= offset /\ offset <= Len(file) /\ from \in Nat /\ offset \in Nat
        /\ Len(file) \in Nat /\ \A i \in 1 .. Len(file) : file[i] \in Bytes
    BY <1>7, InPlace
  <2>2. \A i \in from + 1 .. offset : i \in 1 .. Len(file)
    BY <2>1
  <2>3. SubSeq(file', from + 1, offset) = SubSeq(file, from + 1, offset)
    <3> DEFINE new == file'
    <3>1. \A i \in from + 1 .. offset : file[i] \in Bytes /\ new[i] = file[i]
      BY <1>2, <2>1, <2>2
    <3> HIDE DEF new
    <3>2. SubSeq(new, from + 1, offset) = SubSeq(file, from + 1, offset)
      BY <2>1, <3>1, SubSeqSame
    <3> QED BY <3>2 DEF new
  <2>4. (IF offset < Len(file) THEN offset ELSE Len(file)) = offset
    BY <2>1
  <2>5. (IF offset < Len(file') THEN offset ELSE Len(file')) = offset
    BY <1>2, <2>1
  <2> QED BY <1>1, <2>3, <2>4, <2>5 DEF ReadText
<1>8. EachLineOnce => EachLineOnce'
  BY <1>1, <1>7 DEF EachLineOnce
<1> QED BY <1>6, <1>8

(* start() looks at the end of the file.                                   *)
LEMMA StartStep ==
  ASSUME FileWatchInv, Start
  PROVE  FileWatchInv' /\ EachLineOnce'
<1>1. /\ UNCHANGED <<file, residual, polling, poll, unhandled, pending, out>>
      /\ phase = "stopped" /\ phase' = "watching"
      /\ offset' = Len(file) /\ from' = Len(file) /\ truncated' = FALSE
      /\ prompts' = <<>> /\ lost' = {}
  BY DEF Start, replyVars
<1>2. Len(file) \in Nat /\ residual = <<>> /\ <<>> \in Seq(Seq(Symbols)) /\ Idle
  <2>1. phase = "stopped" => residual = <<>> /\ Idle
    BY DEF FileWatchInv, ReadsInPlace, OnePoll
  <2> QED BY <1>1, <2>1, InPlace, EmptySeq
<1>3. TypeOK'
  BY <1>1, <1>2 DEF FileWatchInv, TypeOK
<1>4. OnePoll'
  BY <1>1, <1>2 DEF FileWatchInv, OnePoll, Idle
<1>5. ReadsInPlace'
  <2>1. \A s \in Polls : poll[s].pc # "read"
    <3>1. NoPoll.pc = "idle" /\ "idle" # "read"
      BY DEF NoPoll
    <3> QED BY <1>2, <3>1 DEF Idle
  <2> QED BY <1>1, <1>2, <2>1 DEF ReadsInPlace
<1>6. ReadText' = <<>>
  <2>1. ReadText' = Text(SubSeq(file, Len(file) + 1, Len(file)))
    BY <1>1, <1>2 DEF ReadText
  <2>2. SubSeq(file, Len(file) + 1, Len(file)) = <<>>
    BY <1>2, SubSeqEmpty
  <2> QED BY <2>1, <2>2, EmptyText
<1>7. EachLineOnce'
  BY <1>1, <1>2, <1>6, SplitEmpty DEF EachLineOnce, NoPieces
<1> QED BY <1>3, <1>4, <1>5, <1>7 DEF FileWatchInv

(* The steps of stop().                                                    *)
LEMMA StopStep ==
  ASSUME FileWatchInv, Stop \/ InCloses \/ OutCloses
  PROVE  FileWatchInv' /\ EachLineOnce'
<1>1. /\ UNCHANGED <<file, polling, poll, unhandled, pending, out, prompts, lost, truncated, from>>
      /\ phase' \in {"closing in", "closing out", "stopped"}
      /\ offset' \in {offset, 0} /\ residual' \in {residual, <<>>}
      /\ phase' = "stopped" => residual' = <<>>
  BY DEF Stop, InCloses, OutCloses, readVars, replyVars, historyVars
<1>2. phase' # "closing in" => Idle
  BY DEF Stop, InCloses, OutCloses, FileWatchInv, OnePoll
<1>3. TypeOK'
  <2>1. offset' \in Nat
    <3>1. offset \in Nat
      BY DEF FileWatchInv, TypeOK
    <3>2. offset' \in {offset, 0}
      BY <1>1
    <3> QED BY <3>1, <3>2
  <2>2. residual' \in Seq(Symbols)
    <3>1. <<>> \in Seq(Symbols) /\ residual \in Seq(Symbols)
      BY EmptySeq DEF FileWatchInv, TypeOK
    <3> QED BY <1>1, <3>1
  <2> QED BY <1>1, <2>1, <2>2 DEF FileWatchInv, TypeOK
<1>4. OnePoll'
  BY <1>1, <1>2 DEF FileWatchInv, OnePoll, Idle
<1>5. ReadsInPlace'
  BY <1>1 DEF FileWatchInv, ReadsInPlace
<1> QED BY <1>1, <1>3, <1>4, <1>5 DEF FileWatchInv, EachLineOnce

(* A poll begins, or finds nothing and ends.                               *)
LEMMA PollStep ==
  ASSUME FileWatchInv, NEW s \in Polls, PollStarts(s) \/ StatReturns(s)
  PROVE  FileWatchInv' /\ (EachLineOnce => EachLineOnce')
<1>1. /\ UNCHANGED <<file, phase, offset, residual, prompts, lost, pending, out, truncated, from>>
      /\ unhandled' \in {unhandled, TRUE}
  BY DEF PollStarts, StatReturns, replyVars, historyVars
<1>2. poll \in [Polls -> [pc : {"idle", "stat", "read"}, at : Nat, length : Nat]]
  BY DEF FileWatchInv, TypeOK
<1>n. offset \in Nat /\ Len(file) \in Nat
  BY InPlace
<1>3. \/ /\ poll' = [poll EXCEPT ![s].pc = "stat"]
         /\ ~polling /\ polling' = TRUE /\ phase = "watching" /\ poll[s] = NoPoll
      \/ /\ poll' = [poll EXCEPT ![s] = NoPoll]
         /\ polling' = FALSE /\ poll[s].pc = "stat"
      \/ /\ poll' = [poll EXCEPT ![s] = Read]
         /\ polling' = polling /\ phase = "watching" /\ poll[s].pc = "stat"
         /\ Len(file) > offset
  BY DEF PollStarts, StatReturns
<1>4. /\ Len(file) > offset =>
            /\ Read \in [pc : {"idle", "stat", "read"}, at : Nat, length : Nat]
            /\ Read.pc = "read" /\ Read.at = offset /\ offset + Read.length <= Len(file)
      /\ NoPoll \in [pc : {"idle", "stat", "read"}, at : Nat, length : Nat]
      /\ NoPoll.pc = "idle"
  <2> DEFINE d == Len(file) - offset
  <2>1. Len(file) > offset => d \in Nat /\ offset + d <= Len(file)
    BY <1>n
  <2>2. Read = [pc |-> "read", at |-> offset, length |-> d]
    BY DEF Read
  <2> HIDE DEF d
  <2> QED BY <1>n, <2>1, <2>2 DEF NoPoll
<1>5. /\ poll' \in [Polls -> [pc : {"idle", "stat", "read"}, at : Nat, length : Nat]]
      /\ \A q \in Polls \ {s} : poll'[q] = poll[q]
      /\ polling' \in BOOLEAN
      /\ polling' = FALSE => poll'[s] = NoPoll
      /\ polling' = TRUE => poll'[s].pc \in {"stat", "read"} /\ phase = "watching"
      /\ poll'[s].pc = "read" =>
            poll'[s].at = offset /\ offset + poll'[s].length <= Len(file)
  <2>1. CASE /\ poll' = [poll EXCEPT ![s].pc = "stat"]
             /\ ~polling /\ polling' = TRUE /\ phase = "watching"
    BY <1>2, <2>1
  <2>2. CASE poll' = [poll EXCEPT ![s] = NoPoll] /\ polling' = FALSE
    BY <1>2, <1>4, <2>2
  <2>3. CASE /\ poll' = [poll EXCEPT ![s] = Read]
             /\ polling' = polling /\ phase = "watching" /\ poll[s].pc = "stat"
             /\ Len(file) > offset
    <3>1. polling
      <4>1. poll[s] # NoPoll
        BY <1>4, <2>3
      <4> QED BY <4>1 DEF FileWatchInv, OnePoll, Idle
    <3>2. poll'[s] = Read /\ poll' \in [Polls -> [pc : {"idle", "stat", "read"}, at : Nat, length : Nat]]
      BY <1>2, <1>4, <2>3
    <3>3. Read.pc = "read" /\ Read.at = offset /\ offset + Read.length <= Len(file)
      BY <1>4, <2>3
    <3>4. \A q \in Polls \ {s} : poll'[q] = poll[q]
      BY <1>2, <2>3
    <3> QED BY <2>3, <3>1, <3>2, <3>3, <3>4
  <2> QED BY <1>3, <2>1, <2>2, <2>3
<1>6. TypeOK'
  BY <1>1, <1>5 DEF FileWatchInv, TypeOK
<1>7. \A q \in Polls \ {s} : poll[q] = NoPoll
  <2>1. CASE ~polling
    BY <2>1 DEF FileWatchInv, OnePoll, Idle
  <2>2. CASE poll[s].pc = "stat"
    <3>1. poll[s] # NoPoll
      BY <1>4, <2>2
    <3> QED BY <3>1 DEF FileWatchInv, OnePoll
  <2> QED BY <1>3, <2>1, <2>2
<1>8. OnePoll'
  <2>1. polling' <=> ~Idle'
    BY <1>4, <1>5, <1>7 DEF Idle
  <2>2. \A p, q \in Polls : poll'[p] # NoPoll /\ poll'[q] # NoPoll => p = q
    BY <1>5, <1>7
  <2>3. phase' \in {"stopped", "closing out"} => Idle'
    BY <1>1, <1>5, <1>7 DEF Idle
  <2> QED BY <2>1, <2>2, <2>3 DEF OnePoll
<1>9. ReadsInPlace'
  <2>1. \A q \in Polls : poll'[q].pc = "read" =>
           q = s /\ poll'[s].at = offset /\ offset + poll'[s].length <= Len(file)
    BY <1>4, <1>5, <1>7
  <2> QED BY <1>1, <2>1 DEF FileWatchInv, ReadsInPlace
<1>10. EachLineOnce => EachLineOnce'
  BY <1>1 DEF EachLineOnce, ReadText
<1> QED BY <1>6, <1>8, <1>9, <1>10 DEF FileWatchInv

(* A read returns: the channel has read so much more, the lines are split  *)
(* off where they belong, and a line that was cut is joined again.         *)
LEMMA ReadStep ==
  ASSUME FileWatchInv, NEW s \in Polls, ReadReturns(s)
  PROVE  /\ FileWatchInv'
         /\ Bytes \cap {"u1", "u2"} = {} /\ EachLineOnce => EachLineOnce'
<1> DEFINE bytes == Found(s)
           chunk == Split(residual \o Text(bytes))
           at == poll[s].at
           to == poll[s].at + poll[s].length
           end == IF to < Len(file) THEN to ELSE Len(file)
           lines == IF bytes = <<>> THEN <<>> ELSE chunk.lines
           C == Symbols \cup {"nl"}
<1>1. /\ UNCHANGED <<file, pending, out, truncated, from>>
      /\ unhandled' \in {unhandled, TRUE}
      /\ poll[s].pc = "read"
      /\ poll' = [poll EXCEPT ![s] = NoPoll] /\ polling' = FALSE
      /\ offset' = offset + Len(bytes)
      /\ residual' = IF bytes = <<>> THEN residual ELSE chunk.rest
      /\ phase' \in {phase, "closing in"}
  BY DEF ReadReturns, replyVars
<1>2. /\ phase' = "watching" /\ phase = "watching" => prompts' = prompts \o lines
      /\ prompts' \in {prompts, prompts \o lines}
            \cup {prompts \o SubSeq(lines, 1, k) : k \in 1 .. Len(lines)}
  BY DEF ReadReturns
<1>l. \/ lost' = lost
      \/ /\ unhandled' = TRUE
         /\ \E k \in 1 .. Len(lines) :
               lost' = lost \cup {Len(prompts) + j : j \in k + 1 .. Len(lines)}
  BY DEF ReadReturns
<1>3. /\ poll \in [Polls -> [pc : {"idle", "stat", "read"}, at : Nat, length : Nat]]
      /\ phase \in {"stopped", "watching", "closing in", "closing out"}
  BY DEF FileWatchInv, TypeOK
<1>r. residual \in Seq(Symbols) /\ prompts \in Seq(Seq(Symbols))
  BY DEF FileWatchInv, TypeOK
<1>n. at \in Nat /\ to \in Nat /\ at <= to
  <2>1. poll[s].at \in Nat /\ poll[s].length \in Nat
    BY <1>3
  <2> QED BY <2>1
<1>4. Len(file) \in Nat /\ offset \in Nat /\ from \in Nat
  BY InPlace
<1>b. file \in Seq(Bytes) /\ \A i \in 1 .. Len(file) : file[i] \in Bytes
  BY InPlace
<1>e. bytes = SubSeq(file, at + 1, end)
  BY DEF Found
<1>w. phase = "watching" /\ ~truncated =>
         at = offset /\ from <= offset /\ offset <= Len(file) /\ to <= Len(file)
  <2>1. phase = "watching" /\ ~truncated =>
           /\ from <= offset /\ offset <= Len(file)
           /\ poll[s].at = offset /\ offset + poll[s].length <= Len(file)
    BY <1>1 DEF FileWatchInv, ReadsInPlace
  <2> QED BY <2>1
<1> HIDE DEF bytes, at, to
<1>5. bytes \in Seq(Bytes) /\ Len(bytes) \in Nat
  <2>1. end \in Nat /\ end <= Len(file)
    BY <1>n, <1>4
  <2> HIDE DEF end
  <2>2. \A i \in at + 1 .. end : i \in 1 .. Len(file)
    BY <1>n, <1>4, <2>1
  <2>3. at + 1 \in Int /\ end \in Int
    BY <1>n, <2>1
  <2>4. SubSeq(file, at + 1, end) \in Seq(Bytes)
    BY <1>b, <2>2, <2>3, SubSeqProperties
  <2> QED BY <1>e, <2>4
<1>6. /\ residual \in Seq(C) /\ Text(bytes) \in Seq(C) /\ residual \o Text(bytes) \in Seq(C)
      /\ chunk \in Pieces(Symbols)
  <2>1. residual \in Seq(C) /\ Text(bytes) \in Seq(C)
    BY <1>5, <1>r, TextType, SeqMonotonic
  <2>2. residual \o Text(bytes) \in Seq(C)
    BY <2>1, ConcatProperties
  <2>3. C \ {"nl"} = Symbols
    BY DEF Symbols
  <2>4. chunk \in Pieces(C \ {"nl"})
    BY <2>2, SplitType
  <2> QED BY <2>1, <2>2, <2>3, <2>4
<1> HIDE DEF chunk, C
<1>s. lines \in Seq(Seq(Symbols))
  <2>1. chunk.lines \in Seq(Seq(Symbols))
    BY <1>6 DEF Pieces
  <2> QED BY <2>1, EmptySeq
<1>t. lost' \subseteq Nat /\ {unhandled', truncated'} \subseteq BOOLEAN
  <2>1. lost \subseteq Nat /\ {unhandled, truncated} \subseteq BOOLEAN
    BY DEF FileWatchInv, TypeOK
  <2>2. Len(prompts) \in Nat /\ Len(lines) \in Nat
    BY <1>r, <1>s, LenProperties
  <2> HIDE DEF lines
  <2>3. ASSUME NEW k \in 1 .. Len(lines)
        PROVE  {Len(prompts) + j : j \in k + 1 .. Len(lines)} \subseteq Nat
    BY <2>2
  <2>4. lost' \subseteq Nat
    BY <1>l, <2>1, <2>3
  <2> QED BY <1>1, <2>1, <2>4
<1>7. TypeOK'
  <2>1. chunk.rest \in Seq(Symbols)
    BY <1>6 DEF Pieces
  <2>2. residual' \in Seq(Symbols) /\ offset' \in Nat
        /\ phase' \in {"stopped", "watching", "closing in", "closing out"}
    <3>1. residual' \in Seq(Symbols)
      BY <1>1, <1>r, <2>1
    <3>2. offset' \in Nat
      <4>1. Len(bytes) \in Nat
        BY <1>5, LenProperties
      <4>2. offset' = offset + Len(bytes)
        BY <1>1
      <4> QED BY <1>4, <4>1, <4>2
    <3> QED BY <1>1, <1>3, <3>1, <3>2
  <2>3. prompts' \in Seq(Seq(Symbols))
    <3> DEFINE Q == Seq(Symbols)
    <3>1. lines \in Seq(Q) /\ prompts \in Seq(Q)
      BY <1>r, <1>s
    <3>2. prompts' \in {prompts, prompts \o lines}
             \cup {prompts \o SubSeq(lines, 1, k) : k \in 1 .. Len(lines)}
      BY <1>2
    <3> HIDE DEF Q, lines
    <3>3. prompts \o lines \in Seq(Q)
      BY <3>1, ConcatProperties
    <3>4. ASSUME NEW k \in 1 .. Len(lines) PROVE prompts \o SubSeq(lines, 1, k) \in Seq(Q)
      <4>1. k \in Int /\ \A i \in 1 .. k : lines[i] \in Q
        BY <3>1, ElementOfSeq
      <4>2. SubSeq(lines, 1, k) \in Seq(Q)
        BY <4>1, SubSeqProperties
      <4> QED BY <3>1, <4>2, ConcatProperties
    <3>5. prompts' \in Seq(Q)
      BY <3>1, <3>2, <3>3, <3>4
    <3> QED BY <3>5 DEF Q
  <2>4. /\ poll' \in [Polls -> [pc : {"idle", "stat", "read"}, at : Nat, length : Nat]]
        /\ polling' \in BOOLEAN
    BY <1>1, <1>3 DEF NoPoll
  <2> QED BY <1>1, <1>t, <2>2, <2>3, <2>4 DEF FileWatchInv, TypeOK
<1>8. \A q \in Polls : poll'[q] = NoPoll
  <2>1. poll[s] # NoPoll
    <3>1. NoPoll.pc = "idle" /\ "idle" # "read"
      BY DEF NoPoll
    <3> QED BY <1>1, <3>1
  <2>2. \A q \in Polls \ {s} : poll[q] = NoPoll
    BY <2>1 DEF FileWatchInv, OnePoll
  <2> QED BY <1>1, <1>3, <2>2
<1>9. OnePoll'
  BY <1>1, <1>8 DEF OnePoll, Idle
<1>10. ASSUME phase = "watching", ~truncated
       PROVE  /\ from <= offset /\ offset <= to /\ to <= Len(file) /\ end = to
              /\ bytes = SubSeq(file, offset + 1, to) /\ offset' = to
  <2>1. at = offset /\ from <= offset /\ offset <= to /\ to <= Len(file) /\ end = to
    BY <1>4, <1>n, <1>w, <1>10
  <2>2. bytes = SubSeq(file, offset + 1, to)
    BY <1>e, <2>1
  <2>3. Len(bytes) = to - offset
    <3>1. \A i \in offset + 1 .. to : i \in 1 .. Len(file)
      BY <1>4, <1>n, <2>1
    <3>2. offset + 1 \in Int /\ to \in Int
      BY <1>4, <1>n
    <3>3. Len(SubSeq(file, offset + 1, to)) = IF offset + 1 <= to THEN to - (offset + 1) + 1 ELSE 0
      BY <1>b, <3>1, <3>2, SubSeqProperties
    <3>4. (IF offset + 1 <= to THEN to - (offset + 1) + 1 ELSE 0) = to - offset
      BY <1>4, <1>n, <2>1
    <3> QED BY <2>2, <3>3, <3>4
  <2>4. offset + (to - offset) = to
    BY <1>4, <1>n
  <2> QED BY <1>1, <2>1, <2>2, <2>3, <2>4
<1>11. ReadsInPlace'
  <2>1. \A q \in Polls : poll'[q].pc # "read"
    <3>1. NoPoll.pc = "idle" /\ "idle" # "read"
      BY DEF NoPoll
    <3> QED BY <1>8, <3>1
  <2>2. phase' # "stopped"
    <3>1. ~Idle
      <4>1. NoPoll.pc = "idle" /\ "idle" # "read"
        BY DEF NoPoll
      <4> QED BY <1>1, <4>1 DEF Idle
    <3>2. phase # "stopped"
      BY <3>1 DEF FileWatchInv, OnePoll
    <3> QED BY <1>1, <3>2
  <2>3. phase' = "watching" => phase = "watching"
    BY <1>1
  <2>4. phase' = "watching" /\ ~truncated' => from <= offset' /\ offset' <= Len(file)
    BY <1>1, <1>4, <1>n, <1>10, <2>3
  <2> QED BY <1>1, <1>4, <2>1, <2>2, <2>4 DEF ReadsInPlace
<1>u. EachLineOnce /\ phase' = "watching" /\ ~truncated' => (lost' # {} => unhandled')
  <2>1. EachLineOnce /\ phase' = "watching" /\ ~truncated' => (lost # {} => unhandled)
    BY <1>1 DEF EachLineOnce
  <2>2. lost' = lost \/ unhandled' = TRUE
    BY <1>l
  <2>3. unhandled => unhandled'
    BY <1>1
  <2> QED BY <2>1, <2>2, <2>3
<1>12. ASSUME Bytes \cap {"u1", "u2"} = {}, EachLineOnce PROVE EachLineOnce'
  <2>1. SUFFICES ASSUME phase' = "watching", ~truncated'
                 PROVE  prompts' = Split(ReadText').lines /\ residual' = Split(ReadText').rest
    BY <1>u, <1>12 DEF EachLineOnce
  <2>2. phase = "watching" /\ ~truncated /\ phase' = phase
    BY <1>1, <2>1
  <2> DEFINE before == SubSeq(file, from + 1, offset)
  <2>3. ReadText = Text(before) /\ prompts = Split(ReadText).lines /\ residual = Split(ReadText).rest
    BY <1>12, <2>2, InPlace DEF EachLineOnce
  <2>4. ReadText' = Text(SubSeq(file, from + 1, to))
    BY <1>1, <1>10, <2>2 DEF ReadText
  <2>5. SubSeq(file, from + 1, to) = before \o bytes
    <3>1. /\ from + 1 \in 1 .. Len(file) + 1
          /\ offset \in (from + 1) - 1 .. Len(file)
          /\ to \in offset .. Len(file)
      BY <1>4, <1>n, <1>10, <2>2
    <3>2. SubSeq(file, from + 1, offset) \o SubSeq(file, offset + 1, to) = SubSeq(file, from + 1, to)
      BY <1>b, <3>1, ConcatAdjacentSubSeq
    <3> QED BY <1>10, <2>2, <3>2
  <2>6. before \in Seq(Bytes)
    <3>1. \A i \in from + 1 .. offset : i \in 1 .. Len(file)
      BY <1>4, <1>n, <1>10, <2>2
    <3>2. from + 1 \in Int /\ offset \in Int
      BY <1>4
    <3> QED BY <1>b, <3>1, <3>2, SubSeqProperties
  <2> HIDE DEF before
  <2>7. Text(before) = before /\ Text(bytes) = bytes /\ Text(before \o bytes) = before \o bytes
    <3>1. before \o bytes \in Seq(Bytes)
      BY <1>5, <2>6, ConcatProperties
    <3> QED BY <1>5, <1>12, <2>6, <3>1, AsciiText
  <2>8. /\ Split(before \o bytes).lines = prompts \o Split(residual \o bytes).lines
        /\ Split(before \o bytes).rest = Split(residual \o bytes).rest
    <3>1. Split(before).lines = prompts /\ Split(before).rest = residual
      BY <2>3, <2>7
    <3>2. /\ Split(before \o bytes).lines =
               Split(before).lines \o Split(Split(before).rest \o bytes).lines
          /\ Split(before \o bytes).rest = Split(Split(before).rest \o bytes).rest
      BY <1>5, <2>6, SplitConcat
    <3> QED BY <3>1, <3>2
  <2>9. ReadText' = before \o bytes
    BY <2>4, <2>5, <2>7
  <2>10. CASE bytes = <<>>
    <3>1. before \o bytes = before
      BY <2>6, <2>10, ConcatEmptySeq
    <3>2. prompts' = prompts
      <4>1. prompts \o <<>> = prompts
        BY <1>r, ConcatEmptySeq
      <4> QED BY <1>2, <2>1, <2>2, <2>10, <4>1
    <3> QED BY <1>1, <2>2, <2>3, <2>7, <2>9, <2>10, <3>1, <3>2
  <2>11. CASE bytes # <<>>
    <3>1. chunk = Split(residual \o bytes)
      BY <2>7 DEF chunk
    <3> QED BY <1>1, <1>2, <2>1, <2>2, <2>8, <2>9, <2>11, <3>1
  <2> QED BY <2>10, <2>11
<1> QED BY <1>7, <1>9, <1>11, <1>12 DEF FileWatchInv

LEMMA FileStep ==
  ASSUME FileWatchInv, [Next]_vars
  PROVE  /\ FileWatchInv'
         /\ Bytes \cap {"u1", "u2"} = {} /\ EachLineOnce => EachLineOnce'
<1>1. ASSUME NEW s \in Polls, PollStarts(s) \/ StatReturns(s)
      PROVE  FileWatchInv' /\ (EachLineOnce => EachLineOnce')
  BY <1>1, PollStep
<1>2. ASSUME NEW s \in Polls, ReadReturns(s)
      PROVE  /\ FileWatchInv'
             /\ Bytes \cap {"u1", "u2"} = {} /\ EachLineOnce => EachLineOnce'
  BY <1>2, ReadStep
<1>3. ASSUME NEW b \in Bytes, Grow(b) PROVE FileWatchInv' /\ (EachLineOnce => EachLineOnce')
  BY <1>3, GrowStep
<1> QED BY <1>1, <1>2, <1>3, ReplyStep, TruncateStep, StartStep, StopStep DEF Next

(* Type correctness of the file-watch channel, and what holds its reads    *)
(* together: one poll at a time, none on a closed file, each where the     *)
(* channel has got to.                                                     *)
THEOREM PollsDoNotOverlap == ChannelSpec => []FileWatchInv
<1>1. ChannelInit => FileWatchInv
  BY FileInit DEF ChannelInit
<1>2. FileWatchInv /\ [ChannelNext]_<<vars, httpVars, id>> => FileWatchInv'
  BY FileStep DEF ChannelNext
<1> QED BY <1>1, <1>2, PTL DEF ChannelSpec

(* In a file of single-byte characters each line is sent once, whole and   *)
(* in order, however writes and polls cut it into pieces.                  *)
THEOREM LinesAreSentOnce ==
  ASSUME Bytes \cap {"u1", "u2"} = {}
  PROVE  ChannelSpec => []EachLineOnce
<1>1. ChannelInit => FileWatchInv /\ EachLineOnce
  BY FileInit DEF ChannelInit
<1>2. FileWatchInv /\ EachLineOnce /\ [ChannelNext]_<<vars, httpVars, id>>
         => FileWatchInv' /\ EachLineOnce'
  BY FileStep DEF ChannelNext
<1> QED BY <1>1, <1>2, PTL DEF ChannelSpec

(* Once stop() was called no prompt is sent, not even by a read that was   *)
(* out already: only start() begins a new history of prompts.              *)
THEOREM SilentAfterStop == ChannelSpec => NoPromptAfterStop
<1>1. ASSUME Next, phase # "watching", prompts' # prompts PROVE phase' = "watching"
  <2>1. CASE Start
    BY <2>1 DEF Start
  <2>2. CASE ~Start
    <3>1. ASSUME NEW s \in Polls, PollStarts(s) \/ StatReturns(s) \/ ReadReturns(s)
          PROVE  prompts' = prompts
      BY <1>1, <3>1 DEF PollStarts, StatReturns, ReadReturns
    <3>2. ASSUME NEW b \in Bytes, Grow(b) PROVE prompts' = prompts
      BY <3>2 DEF Grow, readVars
    <3>3. ASSUME NEW r \in Replies, Reply(r) \/ WriteLands(r) PROVE prompts' = prompts
      BY <3>3 DEF Reply, WriteLands, readVars
    <3>4. ASSUME Truncate \/ Stop \/ InCloses \/ OutCloses PROVE prompts' = prompts
      BY <3>4 DEF Truncate, Stop, InCloses, OutCloses, readVars
    <3> QED BY <1>1, <2>2, <3>1, <3>2, <3>3, <3>4 DEF Next
  <2> QED BY <2>1, <2>2
<1>2. [ChannelNext]_<<vars, httpVars, id>>
         => [phase # "watching" /\ prompts' # prompts => phase' = "watching"]_vars
  BY <1>1 DEF ChannelNext, vars
<1> QED BY <1>2, PTL DEF ChannelSpec, NoPromptAfterStop

-----------------------------------------------------------------------------
(* Type correctness of the kiosk.                                          *)
THEOREM KioskTypes == KioskSpec => []KioskTypeOK
<1>1. KioskInit => KioskTypeOK
  <2> SUFFICES ASSUME KioskInit PROVE KioskTypeOK
    OBVIOUS
  <2>1. session \in [phase : Phases, by : SUBSET Calls]
    <3>1. session = [phase |-> "none", by |-> {}]  BY DEF KioskInit
    <3>2. {} \in SUBSET Calls  OBVIOUS
    <3>3. "none" \in Phases    BY DEF Phases
    <3> HIDE DEF Phases
    <3> QED BY <3>1, <3>2, <3>3
  <2>2. state \in KioskState /\ kioskServer \in {"up", "closing", "closed"} /\ ticking \in BOOLEAN
    BY DEF KioskInit, KioskState
  <2>3. clients \subseteq Streams
    BY DEF KioskInit
  <2>4. calls \in [Calls -> {"new", "answered"} \cup Hooks]
    BY DEF KioskInit
  <2>5. shown \in [Streams -> KioskState \cup {"nothing"}]
    BY DEF KioskInit
  <2> QED BY <2>1, <2>2, <2>3, <2>4, <2>5 DEF KioskTypeOK
<1>2. KioskTypeOK /\ [KioskNext]_(kioskVars) => KioskTypeOK'
  <2> SUFFICES ASSUME KioskTypeOK, [KioskNext]_(kioskVars) PROVE KioskTypeOK'
    OBVIOUS
  <2> USE DEF KioskTypeOK, KioskState, Hooks, Phases, streamVars, talkVars, Awaits, Answers, Arrives
  <2>1. ASSUME NEW c \in Calls, TalkStart(c) \/ TalkEnd(c) \/ Interrupt(c) PROVE KioskTypeOK'
    <3>1. CASE TalkStart(c)  BY <3>1 DEF TalkStart
    <3>2. CASE TalkEnd(c)    BY <3>2 DEF TalkEnd
    <3>3. CASE Interrupt(c)  BY <3>3 DEF Interrupt
    <3> QED BY <2>1, <3>1, <3>2, <3>3
  <2>2. ASSUME NEW c \in Calls, StartSettles(c) PROVE KioskTypeOK'
    <3>1. CASE CaptureStarts(c)  BY <3>1 DEF CaptureStarts
    <3>2. CASE CaptureFails(c)   BY <3>2 DEF CaptureFails
    <3> QED BY <2>2, <3>1, <3>2 DEF StartSettles
  <2>3. ASSUME NEW c \in Calls, EndSettles(c) PROVE KioskTypeOK'
    <3>1. CASE CaptureStops(c)     BY <3>1 DEF CaptureStops
    <3>2. CASE CaptureStopFails(c) BY <3>2 DEF CaptureStopFails
    <3> QED BY <2>3, <3>1, <3>2 DEF EndSettles
  <2>4. ASSUME NEW c \in Calls, InterruptSettles(c) PROVE KioskTypeOK'
    <3>1. CASE SpeechCancelled(c)  BY <3>1 DEF SpeechCancelled
    <3>2. CASE CancelFails(c)      BY <3>2 DEF CancelFails
    <3> QED BY <2>4, <3>1, <3>2 DEF InterruptSettles
  <2>5. ASSUME NEW s \in Streams, Connect(s) \/ Disconnect(s) PROVE KioskTypeOK'
    <3>1. CASE Connect(s)     BY <3>1 DEF Connect
    <3>2. CASE Disconnect(s)  BY <3>2 DEF Disconnect
    <3> QED BY <2>5, <3>1, <3>2
  <2>6. CASE Tick    BY <2>6 DEF Tick
  <2>7. CASE KioskStop    BY <2>7 DEF KioskStop
  <2>8. CASE Closes  BY <2>8 DEF Closes
  <2>9. CASE UNCHANGED kioskVars  BY <2>9 DEF kioskVars
  <2> QED BY <2>1, <2>2, <2>3, <2>4, <2>5, <2>6, <2>7, <2>8, <2>9 DEF KioskNext
<1> QED BY <1>1, <1>2, PTL DEF KioskSpec

(* The kiosk listens only for the latest session, while that one is open.  *)
THEOREM ListensToLatest == KioskSpec => []ListeningIsLatest
<1>1. KioskInit => ListeningIsLatest
  BY DEF KioskInit, ListeningIsLatest
<1>2. KioskTypeOK /\ ListeningIsLatest /\ [KioskNext]_(kioskVars) => ListeningIsLatest'
  <2> SUFFICES ASSUME KioskTypeOK, ListeningIsLatest, [KioskNext]_(kioskVars) PROVE ListeningIsLatest'
    OBVIOUS
  <2> USE DEF ListeningIsLatest
  <2>1. ASSUME NEW c \in Calls, TalkStart(c) \/ TalkEnd(c) \/ Interrupt(c)
        PROVE ListeningIsLatest'
    BY <2>1 DEF TalkStart, TalkEnd, Interrupt
  <2>2. ASSUME NEW c \in Calls, StartSettles(c) PROVE ListeningIsLatest'
    BY <2>2 DEF StartSettles, CaptureStarts, CaptureFails
  <2>3. ASSUME NEW c \in Calls, EndSettles(c) \/ InterruptSettles(c) PROVE ListeningIsLatest'
    BY <2>3 DEF EndSettles, CaptureStops, CaptureStopFails,
                InterruptSettles, SpeechCancelled, CancelFails
  <2>4. ASSUME UNCHANGED talkVars PROVE ListeningIsLatest'
    BY <2>4 DEF talkVars
  <2>5. ASSUME NEW s \in Streams, Connect(s) \/ Disconnect(s) PROVE UNCHANGED talkVars
    BY <2>5 DEF Connect, Disconnect
  <2>6. ASSUME Tick \/ KioskStop \/ Closes \/ UNCHANGED kioskVars PROVE UNCHANGED talkVars
    BY <2>6 DEF Tick, KioskStop, Closes, kioskVars, talkVars
  <2> QED BY <2>1, <2>2, <2>3, <2>4, <2>5, <2>6 DEF KioskNext
<1> QED BY <1>1, <1>2, KioskTypes, PTL DEF KioskSpec

(* The ticker runs exactly while a page listens.                           *)
THEOREM TickerFollowsClients == KioskSpec => []TickerIffClients
<1>1. KioskInit => TickerIffClients
  BY DEF KioskInit, TickerIffClients
<1>2. KioskTypeOK /\ TickerIffClients /\ [KioskNext]_(kioskVars) => TickerIffClients'
  <2> SUFFICES ASSUME KioskTypeOK, TickerIffClients, [KioskNext]_(kioskVars) PROVE TickerIffClients'
    OBVIOUS
  <2> USE DEF TickerIffClients
  <2>1. ASSUME NEW s \in Streams, Connect(s) PROVE TickerIffClients'
    BY <2>1 DEF Connect
  <2>2. ASSUME NEW s \in Streams, Disconnect(s) PROVE TickerIffClients'
    <3>1. clients # {}  BY <2>2 DEF Disconnect
    <3> QED BY <2>2, <3>1 DEF Disconnect
  <2>3. CASE KioskStop
    BY <2>3 DEF KioskStop
  <2>4. ASSUME UNCHANGED <<clients, ticking>> PROVE TickerIffClients'
    BY <2>4
  <2>5. ASSUME Tick \/ Closes \/ UNCHANGED kioskVars PROVE UNCHANGED <<clients, ticking>>
    BY <2>5 DEF Tick, Closes, kioskVars
  <2>6. ASSUME NEW c \in Calls, TalkStart(c) \/ TalkEnd(c) \/ Interrupt(c)
        PROVE UNCHANGED <<clients, ticking>>
    BY <2>6 DEF TalkStart, TalkEnd, Interrupt, streamVars
  <2>7. ASSUME NEW c \in Calls, StartSettles(c) \/ EndSettles(c) \/ InterruptSettles(c)
        PROVE UNCHANGED <<clients, ticking>>
    BY <2>7 DEF StartSettles, CaptureStarts, CaptureFails, EndSettles, CaptureStops,
                CaptureStopFails, InterruptSettles, SpeechCancelled, CancelFails, streamVars
  <2> QED BY <2>1, <2>2, <2>3, <2>4, <2>5, <2>6, <2>7 DEF KioskNext
<1> QED BY <1>1, <1>2, KioskTypes, PTL DEF KioskSpec
=============================================================================
