--------------------------- MODULE Runtime_proofs ---------------------------
(***************************************************************************)
(* Proofs about Runtime, for any set of prompts and any mode: the event    *)
(* log is causal, it agrees with what was printed, and closing the store   *)
(* refuses nothing but the row of a route that shutdown() overtook.        *)
(***************************************************************************)
EXTENDS Runtime, SequenceLemmas

-----------------------------------------------------------------------------
(* The inductive invariant.                                                *)

(* The bus subscriptions of the seam and of the channel live and die       *)
(* together, with the terminal.                                            *)
Listening ==
    /\ reading <=> phase = "up"
    /\ \A s \in {"seam", "log", "channel"} : s \in subs <=> phase = "up"

Traffic(r) == r.kind \in {"channel.in", "channel.out"}

(* When the store closes, the traffic of before shutdown() has been stored.*)
TrafficIsAwaited ==
    /\ phase = "closing" => \A r \in ToSet(chain) : Traffic(r) => r \in waitFor
    /\ phase = "closed" => \A r \in ToSet(chain) : ~Traffic(r)

InRow(h) == Row("channel.in", <<h[1], "seam">>)

(* A prompt that is handled has its channel.in row, and in the chain too   *)
(* that row comes before any other of the prompt.                          *)
HandledCameIn ==
    \A h \in Calls : handling[h] # "none" => InRow(h) \in rows \cup ToSet(chain)

CausalChain ==
    \A i \in 1 .. Len(chain) :
        \/ InRow(chain[i].call) \in rows
        \/ \E j \in 1 .. i : chain[j] = InRow(chain[i].call)

RuntimeInv ==
    /\ TypeOK /\ Listening /\ TrafficIsAwaited /\ HandledCameIn /\ CausalChain
    /\ CausalLog /\ PrintedIsRecorded /\ OnlyLateRoutesRefused

(* What a row is made of.                                                  *)
LEMMA RowFacts ==
  /\ \A k \in Kinds, h \in Calls : Row(k, h) \in Rows
  /\ \A k, h : Row(k, h).kind = k /\ Row(k, h).call = h
  /\ \A h \in Calls : InRow(h) \in Rows
  /\ \A r \in Rows : r.kind \in Kinds /\ r.call \in Calls
  /\ \A r \in Rows : r.kind = "channel.in" /\ InRow(r.call).call = r.call => r = InRow(r.call)
  <1>1. \A k \in Kinds, h \in Calls : Row(k, h) \in Rows
    BY DEF Row, Rows
  <1>2. \A k, h : Row(k, h).kind = k /\ Row(k, h).call = h
    BY DEF Row
  <1>3. \A h \in Calls : InRow(h) \in Rows
    BY DEF InRow, Row, Rows, Calls, Owners, Kinds
  <1>4. \A r \in Rows : r.kind \in Kinds /\ r.call \in Calls
    BY DEF Rows
  <1>5. \A r \in Rows : r.kind = "channel.in" /\ InRow(r.call).call = r.call => r = InRow(r.call)
    BY DEF InRow, Row, Rows
  <1> QED  BY <1>1, <1>2, <1>3, <1>4, <1>5

-----------------------------------------------------------------------------
(* Steps that append one row to the chain.                                 *)

(* An append whose prompt came in before keeps the chain causal.           *)
LEMMA AppendKeeps ==
  ASSUME RuntimeInv, NEW r \in Rows,
         chain' = Append(chain, r),
         UNCHANGED <<lifeVars, storeVars, subs>>,
         InRow(r.call) \in rows \cup ToSet(chain) \cup {r},
         Traffic(r) => phase = "up"
  PROVE  /\ chain' \in Seq(Rows)
         /\ ToSet(chain') = ToSet(chain) \cup {r}
         /\ Listening' /\ TrafficIsAwaited' /\ CausalChain'
         /\ CausalLog' /\ OnlyLateRoutesRefused'
  <1> USE DEF RuntimeInv
  <1>1. /\ chain \in Seq(Rows) /\ Len(chain) \in Nat
        /\ chain' \in Seq(Rows)
        /\ ToSet(chain') = ToSet(chain) \cup {r}
        /\ \A i \in 1 .. Len(chain) : chain'[i] = chain[i]
        /\ chain'[Len(chain) + 1] = r
        /\ Len(chain') = Len(chain) + 1
    BY ChainGrows DEF TypeOK
  <1>2. UNCHANGED <<mode, agent, aborted, reading, phase, waitFor, rows, refused, subs>>
    BY DEF lifeVars, storeVars
  <1>3. Listening'
    BY <1>2 DEF Listening
  <1>4. TrafficIsAwaited'
    BY <1>1, <1>2 DEF TrafficIsAwaited, Traffic
  <1>5. CausalChain'
    <2>1. ASSUME NEW i \in 1 .. Len(chain)
          PROVE  \/ InRow(chain'[i].call) \in rows'
                 \/ \E j \in 1 .. i : chain'[j] = InRow(chain'[i].call)
      <3>1. \A j \in 1 .. i : j \in 1 .. Len(chain)
        BY <1>1
      <3> QED  BY <1>1, <1>2, <3>1 DEF CausalChain
    <2>2. \/ InRow(r.call) \in rows'
          \/ \E j \in 1 .. Len(chain) + 1 : chain'[j] = InRow(r.call)
      <3>1. CASE InRow(r.call) \in rows
        BY <1>2, <3>1
      <3>2. CASE InRow(r.call) \in ToSet(chain)
        <4>1. PICK j \in 1 .. Len(chain) : chain[j] = InRow(r.call)
          BY <1>1, <3>2 DEF ToSet
        <4>2. j \in 1 .. Len(chain) + 1 /\ chain'[j] = InRow(r.call)
          BY <1>1, <4>1
        <4> QED  BY <4>2
      <3>3. CASE InRow(r.call) = r
        BY <1>1, <3>3
      <3> QED  BY <3>1, <3>2, <3>3
    <2>3. \A i \in 1 .. Len(chain') : i \in 1 .. Len(chain) \/ i = Len(chain) + 1
      BY <1>1
    <2> QED  BY <1>1, <2>1, <2>2, <2>3 DEF CausalChain
  <1>6. CausalLog' /\ OnlyLateRoutesRefused'
    BY <1>2 DEF CausalLog, OnlyLateRoutesRefused
  <1> QED  BY <1>1, <1>3, <1>4, <1>5, <1>6

(* What a step that does not append leaves as it is.                       *)
LEMMA NoAppendKeeps ==
  ASSUME RuntimeInv, UNCHANGED <<lifeVars, storeVars, subs, chain>>
  PROVE  /\ chain' \in Seq(Rows)
         /\ Listening' /\ TrafficIsAwaited' /\ CausalChain'
         /\ CausalLog' /\ OnlyLateRoutesRefused'
  BY DEF RuntimeInv, TypeOK, Listening, TrafficIsAwaited, CausalChain, CausalLog,
         OnlyLateRoutesRefused, lifeVars, storeVars

(* A reply is printed and logged by the same send, or by neither.          *)
LEMMA ReplyStep ==
  ASSUME RuntimeInv, NEW h \in Calls, handling[h] # "none", Reply(h),
         UNCHANGED <<lifeVars, storeVars, subs>>
  PROVE  RuntimeInv'
  <1> USE DEF RuntimeInv
  <1> DEFINE r == Row("channel.out", h)
  <1>1. r \in Rows /\ r.kind = "channel.out" /\ r.call = h
    BY RowFacts DEF Kinds
  <1>2. handling' = [handling EXCEPT ![h] = "replied"]
    BY DEF Reply, Printed
  <1>3. UNCHANGED <<mode, agent, aborted, reading, phase, waitFor, rows, refused, subs>>
    BY DEF lifeVars, storeVars
  <1>4. "channel" \in subs <=> "log" \in subs
    BY DEF Listening
  <1>5. /\ chain' \in Seq(Rows)
        /\ Listening' /\ TrafficIsAwaited' /\ CausalChain'
        /\ CausalLog' /\ OnlyLateRoutesRefused'
        /\ ToSet(chain') = IF "log" \in subs THEN ToSet(chain) \cup {r} ELSE ToSet(chain)
    <2>1. CASE "log" \in subs
      <3>1. chain' = Append(chain, r) /\ phase = "up"
        BY <2>1 DEF Reply, Printed, Listening
      <3>2. InRow(r.call) \in rows \cup ToSet(chain)
        BY <1>1 DEF HandledCameIn
      <3> HIDE DEF r
      <3> QED  BY <1>1, <2>1, <3>1, <3>2, AppendKeeps
    <2>2. CASE "log" \notin subs
      BY <2>2, NoAppendKeeps DEF Reply, Printed
    <2> QED  BY <2>1, <2>2
  <1>6. printed' = IF "log" \in subs THEN printed \cup {h} ELSE printed
    BY <1>4 DEF Reply, Printed
  <1>7. TypeOK'
    BY <1>2, <1>3, <1>5, <1>6 DEF TypeOK
  <1>8. HandledCameIn'
    BY <1>2, <1>3, <1>5 DEF HandledCameIn, TypeOK
  <1>9. PrintedIsRecorded'
    <2>1. \A g \in Calls : Row("channel.out", g) = r <=> g = h
      BY RowFacts, <1>1
    <2>2. printed \subseteq Calls
      BY DEF TypeOK
    <2> HIDE DEF r
    <2> QED  BY <1>3, <1>5, <1>6, <2>1, <2>2 DEF PrintedIsRecorded
  <1> QED  BY <1>5, <1>7, <1>8, <1>9

-----------------------------------------------------------------------------
(* The other steps.                                                        *)

(* A line is logged before any handler of it can log something.            *)
LEMMA LineStep ==
  ASSUME RuntimeInv, NEW m \in Prompts, Line(m)
  PROVE  RuntimeInv'
  <1> USE DEF RuntimeInv
  <1> DEFINE r == Row("channel.in", <<m, "seam">>)
  <1>1. "seam" \in subs /\ phase = "up"
    BY DEF Line, Handled, LoggedPrompt, Listening
  <1>2. <<m, "seam">> \in Calls
    BY DEF Calls, Owners
  <1>3. r \in Rows /\ r.call = <<m, "seam">> /\ InRow(r.call) = r /\ r.kind = "channel.in"
    BY <1>2, RowFacts DEF Kinds, InRow
  <1>4. /\ chain' = Append(chain, r)
        /\ UNCHANGED <<lifeVars, storeVars, subs>>
        /\ printed' = printed
        /\ handling' = [h \in Calls |->
               IF h[1] = m /\ h[2] \in subs THEN FirstAwait ELSE handling[h]]
    BY <1>1 DEF Line, Handled, LoggedPrompt
  <1>5. \A h \in Calls : h[1] = m => InRow(h) = r
    BY DEF InRow
  <1>6. \A h \in Calls : Row("channel.out", h) # r
    BY <1>3, RowFacts
  <1> HIDE DEF r
  <1>7. /\ chain' \in Seq(Rows)
        /\ ToSet(chain') = ToSet(chain) \cup {r}
        /\ Listening' /\ TrafficIsAwaited' /\ CausalChain'
        /\ CausalLog' /\ OnlyLateRoutesRefused'
    BY <1>1, <1>3, <1>4, AppendKeeps
  <1>8. UNCHANGED <<mode, agent, aborted, reading, phase, waitFor, rows, refused, subs>>
    BY <1>4 DEF lifeVars, storeVars
  <1>9. FirstAwait \in {"asking", "routing"}
    BY DEF FirstAwait
  <1>10. TypeOK'
    <2>1. handling' \in [Calls -> {"none", "asking", "routing", "router.out",
                               "agent.error", "replied"}]
      BY <1>4, <1>9 DEF TypeOK
    <2> QED  BY <1>4, <1>7, <1>8, <2>1 DEF TypeOK
  <1>11. HandledCameIn'
    BY <1>4, <1>5, <1>7, <1>8 DEF HandledCameIn
  <1>12. PrintedIsRecorded'
    BY <1>4, <1>6, <1>7, <1>8 DEF PrintedIsRecorded
  <1> QED  BY <1>7, <1>10, <1>11, <1>12

(* The outcome of a route is logged behind its prompt.                     *)
LEMMA RouteSettlesStep ==
  ASSUME RuntimeInv, NEW h \in Calls, RouteSettles(h)
  PROVE  RuntimeInv'
  <1> USE DEF RuntimeInv
  <1>1. PICK kind \in {"router.out", "agent.error"} :
          /\ chain' = Append(chain, Row(kind, h))
          /\ handling' = [handling EXCEPT ![h] = kind]
    BY DEF RouteSettles
  <1> DEFINE r == Row(kind, h)
  <1>2. r \in Rows /\ r.kind = kind /\ r.call = h
    BY RowFacts DEF Kinds
  <1>3. UNCHANGED <<lifeVars, storeVars, subs, printed>> /\ handling[h] = "routing"
    BY DEF RouteSettles
  <1>4. ~Traffic(r) /\ InRow(r.call) \in rows \cup ToSet(chain)
    BY <1>2, <1>3 DEF Traffic, HandledCameIn
  <1>5. \A g \in Calls : Row("channel.out", g) # r
    BY <1>2, RowFacts
  <1>6. chain' = Append(chain, r)
    BY <1>1
  <1> HIDE DEF r
  <1>7. /\ chain' \in Seq(Rows)
        /\ ToSet(chain') = ToSet(chain) \cup {r}
        /\ Listening' /\ TrafficIsAwaited' /\ CausalChain'
        /\ CausalLog' /\ OnlyLateRoutesRefused'
    BY <1>2, <1>3, <1>4, <1>6, AppendKeeps
  <1>8. UNCHANGED <<mode, agent, aborted, reading, phase, waitFor, rows, refused, subs>>
    BY <1>3 DEF lifeVars, storeVars
  <1>9. TypeOK'
    BY <1>1, <1>3, <1>7, <1>8 DEF TypeOK
  <1>10. HandledCameIn'
    BY <1>1, <1>3, <1>7, <1>8 DEF HandledCameIn, TypeOK
  <1>11. PrintedIsRecorded'
    BY <1>3, <1>5, <1>7, <1>8 DEF PrintedIsRecorded
  <1> QED  BY <1>7, <1>9, <1>10, <1>11

(* A satellite that fails is answered for, or leaves the prompt to the     *)
(* router.                                                                 *)
LEMMA SatelliteFailsStep ==
  ASSUME RuntimeInv, NEW h \in Calls, SatelliteFails(h)
  PROVE  RuntimeInv'
  <1>1. CASE mode = "satellite" /\ Reply(h)
    BY <1>1, ReplyStep DEF SatelliteFails
  <1>2. CASE handling' = [handling EXCEPT ![h] = "routing"] /\ UNCHANGED <<chain, printed>>
    <2>1. /\ chain' \in Seq(Rows)
          /\ Listening' /\ TrafficIsAwaited' /\ CausalChain'
          /\ CausalLog' /\ OnlyLateRoutesRefused'
      BY <1>2, NoAppendKeeps DEF SatelliteFails
    <2>2. UNCHANGED <<mode, agent, aborted, reading, phase, waitFor, rows, refused, subs>>
      BY DEF SatelliteFails, lifeVars, storeVars
    <2>3. handling[h] = "asking"
      BY DEF SatelliteFails
    <2>4. TypeOK'
      BY <1>2, <2>1, <2>2 DEF RuntimeInv, TypeOK
    <2>5. HandledCameIn'
      BY <1>2, <2>2, <2>3 DEF RuntimeInv, HandledCameIn, TypeOK
    <2>6. PrintedIsRecorded'
      BY <1>2, <2>2 DEF RuntimeInv, PrintedIsRecorded
    <2> QED  BY <2>1, <2>4, <2>5, <2>6 DEF RuntimeInv
  <1> QED  BY <1>1, <1>2 DEF SatelliteFails

(* The oldest append is stored, or refused once the store is closed.       *)
LEMMA RunLinkStep ==
  ASSUME RuntimeInv, RunLink
  PROVE  RuntimeInv'
  <1> USE DEF RuntimeInv
  <1> DEFINE r == Head(chain)
  <1>1. /\ r \in Rows
        /\ chain' = Tail(chain)
        /\ chain' \in Seq(Rows)
        /\ Len(chain) \in Nat \ {0}
        /\ r = chain[1]
        /\ Len(chain') = Len(chain) - 1
        /\ \A i \in 1 .. Len(chain') : chain'[i] = chain[i + 1]
        /\ ToSet(chain) = {r} \cup ToSet(chain')
    BY ChainMoves DEF RunLink, TypeOK
  <1>2. /\ UNCHANGED <<mode, agent, aborted, reading, phase, subs, handling, waitFor, printed>>
        /\ phase # "closed" => rows' = rows \cup {r} /\ refused' = refused
        /\ phase = "closed" => rows' = rows /\ refused' = refused \cup {r}
    BY DEF RunLink, lifeVars
  <1> HIDE DEF r
  <1>3. TypeOK'
    BY <1>1, <1>2 DEF TypeOK
  <1>4. Listening' /\ TrafficIsAwaited'
    BY <1>1, <1>2 DEF Listening, TrafficIsAwaited, Traffic
  <1>5. r.kind \in Kinds /\ r.call \in Calls /\ InRow(r.call).kind = "channel.in"
    BY <1>1, RowFacts DEF InRow
  <1>6. phase = "closed" => r.kind \in {"router.out", "agent.error"}
    BY <1>1, <1>5 DEF TrafficIsAwaited, Traffic, Kinds
  <1>7. r.kind = "channel.in" => r \in rows'
    BY <1>2, <1>6
  <1>8. \A x : x.kind \in {"channel.in", "channel.out"}
                   /\ x \in rows \cup ToSet(chain) => x \in rows' \cup ToSet(chain')
    BY <1>1, <1>2, <1>6
  <1>9. HandledCameIn'
    <2>1. \A h : InRow(h).kind = "channel.in"
      BY RowFacts DEF InRow
    <2> QED  BY <1>2, <1>8, <2>1 DEF HandledCameIn
  <1>10. CausalChain'
    <2> SUFFICES ASSUME NEW i \in 1 .. Len(chain')
                 PROVE  \/ InRow(chain'[i].call) \in rows'
                        \/ \E j \in 1 .. i : chain'[j] = InRow(chain'[i].call)
      BY DEF CausalChain
    <2>1. i + 1 \in 1 .. Len(chain) /\ chain'[i] = chain[i + 1]
      BY <1>1
    <2> DEFINE x == InRow(chain'[i].call)
    <2>2. x.kind = "channel.in"
      BY RowFacts DEF InRow
    <2>3. CASE x \in rows
      BY <1>2, <2>3
    <2>4. CASE x \notin rows
      <3>1. PICK j \in 1 .. i + 1 : chain[j] = x
        BY <2>1, <2>4 DEF CausalChain
      <3>2. CASE j = 1
        BY <1>1, <1>7, <2>2, <3>1, <3>2
      <3>3. CASE j # 1
        <4>1. j - 1 \in 1 .. i /\ j - 1 \in 1 .. Len(chain')
          BY <1>1, <3>3
        <4>2. chain'[j - 1] = x
          BY <1>1, <3>1, <4>1
        <4> QED  BY <4>1, <4>2
      <3> QED  BY <3>2, <3>3
    <2> QED  BY <2>3, <2>4
  <1>11. CausalLog'
    <2>1. phase # "closed" => InRow(r.call) \in rows'
      <3>1. InRow(r.call) \in rows \/ \E j \in 1 .. 1 : chain[j] = InRow(r.call)
        <4>1. 1 \in 1 .. Len(chain)
          BY <1>1
        <4> QED  BY <1>1, <4>1 DEF CausalChain
      <3>2. InRow(r.call) \in rows \/ r = InRow(r.call)
        BY <1>1, <3>1
      <3> QED  BY <1>2, <3>2
    <2>2. \A x \in rows : InRow(x.call) \in rows
      BY DEF CausalLog, InRow
    <2>3. \A x \in rows' : InRow(x.call) \in rows'
      BY <1>2, <2>1, <2>2
    <2> QED  BY <2>3 DEF CausalLog, InRow
  <1>12. PrintedIsRecorded'
    <2>1. \A h : Row("channel.out", h).kind = "channel.out"
      BY RowFacts
    <2>2. \A h \in Calls : Row("channel.out", h) \in rows \cup ToSet(chain)
                            <=> Row("channel.out", h) \in rows' \cup ToSet(chain')
      BY <1>1, <1>2, <1>8, <2>1
    <2> QED  BY <1>2, <2>2 DEF PrintedIsRecorded
  <1>13. OnlyLateRoutesRefused'
    BY <1>2, <1>6 DEF OnlyLateRoutesRefused
  <1> QED  BY <1>3, <1>4, <1>9, <1>10, <1>11, <1>12, <1>13

(* The steps of the agent's run and of shutdown() leave the log alone.     *)
LEMMA LifeStep ==
  ASSUME RuntimeInv, StartAgent \/ RunEnds \/ Shutdown \/ AbortRuns
                       \/ AskStoreToClose \/ StoreCloses
  PROVE  RuntimeInv'
  <1> USE DEF RuntimeInv
  <1>1. UNCHANGED <<handling, chain, rows, refused, printed>>
    BY DEF StartAgent, RunEnds, Shutdown, BootSubs, AbortRuns, AskStoreToClose, StoreCloses, storeVars
  <1>2. ToSet(chain) \subseteq Rows
    <2>1. chain \in Seq(Rows)
      BY DEF TypeOK
    <2> QED  BY <2>1 DEF ToSet
  <1>3. TypeOK'
    BY <1>1, <1>2 DEF TypeOK, StartAgent, RunEnds, Shutdown, BootSubs, AbortRuns, AskStoreToClose,
                 StoreCloses, storeVars
  <1>4. Listening'
    BY DEF Listening, TypeOK, StartAgent, RunEnds, Shutdown, BootSubs, AbortRuns, AskStoreToClose,
           StoreCloses
  <1>5. TrafficIsAwaited'
    BY <1>1 DEF TrafficIsAwaited, StartAgent, RunEnds, Shutdown, BootSubs, AbortRuns,
                AskStoreToClose, StoreCloses, storeVars
  <1>6. HandledCameIn' /\ CausalChain' /\ CausalLog' /\ PrintedIsRecorded'
        /\ OnlyLateRoutesRefused'
    BY <1>1 DEF HandledCameIn, CausalChain, CausalLog, PrintedIsRecorded,
                OnlyLateRoutesRefused
  <1> QED  BY <1>3, <1>4, <1>5, <1>6

(* Nothing is logged, handled or printed at the start.                     *)
LEMMA InitInv == Init => RuntimeInv
  <1> SUFFICES ASSUME Init PROVE RuntimeInv
    OBVIOUS
  <1>1. chain = <<>> /\ ToSet(chain) = {} /\ Len(chain) = 0
    BY DEF Init, BootSubs, ToSet
  <1>2. chain \in Seq(Rows)
    BY <1>1
  <1>3. TypeOK
    BY <1>2 DEF Init, BootSubs, TypeOK
  <1>4. Listening /\ TrafficIsAwaited
    BY <1>1 DEF Init, BootSubs, Listening, TrafficIsAwaited
  <1>5. HandledCameIn /\ CausalChain /\ CausalLog /\ PrintedIsRecorded
        /\ OnlyLateRoutesRefused
    BY <1>1 DEF Init, BootSubs, HandledCameIn, CausalChain, CausalLog, PrintedIsRecorded,
                OnlyLateRoutesRefused
  <1> QED  BY <1>3, <1>4, <1>5 DEF RuntimeInv

(* The inductive invariant of the seam: every theorem below follows from   *)
(* it.                                                                     *)
THEOREM RuntimeInvariance == Spec => []RuntimeInv
  <1>1. ASSUME RuntimeInv, [Next]_vars PROVE RuntimeInv'
    <2> USE <1>1
    <2>1. ASSUME NEW m \in Prompts, Line(m) PROVE RuntimeInv'
      BY <2>1, LineStep
    <2>2. ASSUME NEW h \in Calls, SatelliteAnswers(h) PROVE RuntimeInv'
      BY <2>2, ReplyStep DEF SatelliteAnswers
    <2>3. ASSUME NEW h \in Calls, SatelliteFails(h) PROVE RuntimeInv'
      BY <2>3, SatelliteFailsStep
    <2>4. ASSUME NEW h \in Calls, RouteSettles(h) PROVE RuntimeInv'
      BY <2>4, RouteSettlesStep
    <2>5. ASSUME NEW h \in Calls, Logged(h) PROVE RuntimeInv'
      BY <2>5, ReplyStep DEF Logged
    <2>6. CASE RunLink
      BY <2>6, RunLinkStep
    <2>7. CASE StartAgent \/ RunEnds \/ Shutdown \/ AbortRuns \/ AskStoreToClose
                 \/ StoreCloses
      BY <2>7, LifeStep
    <2>8. CASE UNCHANGED vars
      BY <2>8 DEF vars, RuntimeInv, TypeOK, Listening, TrafficIsAwaited, HandledCameIn,
                  CausalChain, CausalLog, PrintedIsRecorded, OnlyLateRoutesRefused
    <2> QED  BY <2>1, <2>2, <2>3, <2>4, <2>5, <2>6, <2>7, <2>8 DEF Next
  <1> QED  BY <1>1, InitInv, PTL DEF Spec

(* The variables of the seam stay in their types (runtime.ts).             *)
THEOREM RuntimeTypes == Spec => []TypeOK
  <1>1. RuntimeInv => TypeOK
    BY DEF RuntimeInv
  <1> QED  BY <1>1, RuntimeInvariance, PTL

(* The events table never says anything of a prompt before it says that    *)
(* the prompt came in: safeAppend("channel.in") is called before onMessage.*)
THEOREM LogIsCausal == Spec => []CausalLog
  <1>1. RuntimeInv => CausalLog
    BY DEF RuntimeInv
  <1> QED  BY <1>1, RuntimeInvariance, PTL

(* The replies on stdout are those with a channel.out row, stored or still *)
(* in the store's chain, whenever shutdown() comes.                        *)
THEOREM LogAgreesWithOutput == Spec => []PrintedIsRecorded
  <1>1. RuntimeInv => PrintedIsRecorded
    BY DEF RuntimeInv
  <1> QED  BY <1>1, RuntimeInvariance, PTL

(* memory.close() refuses nothing but rows of routes that outlived         *)
(* shutdown().                                                             *)
THEOREM TrafficIsNeverRefused == Spec => []OnlyLateRoutesRefused
  <1>1. RuntimeInv => OnlyLateRoutesRefused
    BY DEF RuntimeInv
  <1> QED  BY <1>1, RuntimeInvariance, PTL
=============================================================================
