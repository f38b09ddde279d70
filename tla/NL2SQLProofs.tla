----------------------------- MODULE NL2SQLProofs -----------------------------
(***************************************************************************)
(* Theorems about the gateway, its ledger, the usage pages and NL2SQL, for *)
(* any number of calls, retries, deltas and records.  CallOK says what is  *)
(* true of a call at each of its steps, LedgerOK how the ledger and the    *)
(* calls hang together, PageInv and QuestionInv what a reader of the pages *)
(* and a question can rely on, BooksInv what a question has been charged.  *)
(***************************************************************************)
EXTENDS NL2SQL, Recursion

\* A call that has had data is not tried again, and has an end before it is
\* recorded.
CallOK ==
  \A c \in Calls :
    /\ c \in emitted => pc[c] \in {"lines", "yield", "left", "select", "insert", "done"}
    /\ Len(got[c]) # 0 => c \in emitted
    /\ pc[c] = "backoff" => attempt[c] <= MaxRetries
    /\ pc[c] \in {"idle", "request", "backoff", "lines", "yield"} => outcome[c] = "none"
    /\ pc[c] \in {"left", "select", "insert", "done"} => outcome[c] # "none"
    /\ pc[c] # "done" => loss[c] = "none"

Recorded(c) == \E r \in ledger : r.call = c

\* Accounted, without counting.
LedgerOK ==
  /\ \A r \in ledger : pc[r.call] = "done"
  /\ \A r, s \in ledger : r.call = s.call => r = s
  /\ \A c \in Calls :
       /\ pc[c] = "done" /\ loss[c] = "none"
       /\ ~(kind[c] = "json" /\ outcome[c] = "cancelled")
       => Recorded(c)

GatewayInv ==
  /\ GatewayTypeOK /\ CallOK /\ NoRepeatedDelta /\ LedgerOK /\ LedgerTrue
  /\ IsFiniteSet(ledger)

\* Every step of NL2SQL is, for the gateway, one of these.
GatewayNext ==
  \/ \E c \in Calls : (\E k \in Kinds : Start(c, k)) \/ EmbedNothing(c)
  \/ GatewayStep
  \/ UNCHANGED gatewayVars

-----------------------------------------------------------------------------
(* Types.                                                                  *)

LEMMA InitGateway == Init => GatewayInv
<1> SUFFICES ASSUME Init PROVE GatewayInv
  OBVIOUS
<1> USE GatewayAssumption DEF Init, GatewayInit
<1>1. GatewayTypeOK
  BY DEF GatewayTypeOK, Kinds, Outcomes, Losses, Attempts, Records
<1>2. CallOK /\ NoRepeatedDelta /\ LedgerOK /\ LedgerTrue
  BY DEF CallOK, NoRepeatedDelta, LedgerOK, LedgerTrue
<1>3. IsFiniteSet(ledger) BY FS_EmptySet
<1> QED BY <1>1, <1>2, <1>3 DEF GatewayInv

LEMMA RecordTyped ==
  ASSUME GatewayTypeOK, NEW c \in Calls PROVE RecordOf(c) \in Records
  BY DEF GatewayTypeOK, RecordOf, Records

\* The provider.
LEMMA ProviderTyped ==
  ASSUME GatewayTypeOK, CallOK, NEW c \in Calls, Provider(c)
  PROVE  GatewayTypeOK'
<1> USE GatewayAssumption
    DEF GatewayTypeOK, Goto, Ends, RetryIf, stream, record, outside, Outcomes, Attempts
<1>1. CASE Refused(c) \/ Rejected(c) \/ Broken(c)
  BY <1>1 DEF Refused, Rejected, Broken
<1>2. CASE Backoff(c) BY <1>2 DEF Backoff, CallOK
<1>3. CASE Answered(c) \/ Opened(c) \/ Finished(c)
  BY <1>3 DEF Answered, Opened, Finished
<1>4. CASE Line(c)
  <2>1. Append(got[c], attempt[c]) \in Seq(0..(MaxRetries + 1)) OBVIOUS
  <2> QED BY <1>4, <2>1 DEF Line
<1> QED BY <1>1, <1>2, <1>3, <1>4 DEF Provider

\* The callers, the clock and the conversation.
LEMMA CallerTyped ==
  ASSUME GatewayTypeOK, NEW c \in Calls,
         Caller(c) \/ (\E k \in Kinds : Start(c, k)) \/ EmbedNothing(c)
  PROVE  GatewayTypeOK'
<1> USE GatewayAssumption
    DEF GatewayTypeOK, Goto, Ends, stream, record, outside, Outcomes, Attempts
<1>1. CASE Caller(c)
  BY <1>1 DEF Caller, Resume, Cancel, Leave, Close
<1>2. CASE \E k \in Kinds : Start(c, k) BY <1>2 DEF Start
<1>3. CASE EmbedNothing(c) BY <1>3 DEF EmbedNothing
<1> QED BY <1>1, <1>2, <1>3

LEMMA RecorderTyped ==
  ASSUME GatewayTypeOK, NEW c \in Calls, Recorder(c) PROVE GatewayTypeOK'
<1>1. RecordOf(c) \in Records BY RecordTyped
<1> USE <1>1
    DEF GatewayTypeOK, Goto, Ends, Lost, stream, record, outside, Outcomes, Losses
<1>2. CASE Select(c) BY <1>2 DEF Select
<1>3. CASE Insert(c) BY <1>3 DEF Insert
<1>4. CASE RecorderFails(c) BY <1>4 DEF RecorderFails
<1>5. CASE CancelRecord(c) BY <1>5 DEF CancelRecord
<1> QED BY <1>2, <1>3, <1>4, <1>5 DEF Recorder

LEMMA OutsideTyped ==
  ASSUME GatewayTypeOK, DeleteConversation \/ Tick \/ UNCHANGED gatewayVars
  PROVE  GatewayTypeOK'
  BY GatewayAssumption
  DEF GatewayTypeOK, DeleteConversation, Tick, gatewayVars, stream, record

LEMMA GatewayTyped ==
  ASSUME GatewayTypeOK, CallOK, GatewayNext PROVE GatewayTypeOK'
  BY ProviderTyped, CallerTyped, RecorderTyped, OutsideTyped DEF GatewayNext, GatewayStep

-----------------------------------------------------------------------------
(* Calls and their deltas.                                                 *)

CallInv == GatewayTypeOK /\ CallOK /\ NoRepeatedDelta

LEMMA ProviderKeepsCalls ==
  ASSUME CallInv, NEW c \in Calls, Provider(c)
  PROVE  CallOK' /\ NoRepeatedDelta'
<1> USE GatewayAssumption
    DEF CallInv, GatewayTypeOK, CallOK, NoRepeatedDelta, Goto, Ends, RetryIf, stream,
        record, outside, Attempts
<1>1. CASE Refused(c) \/ Rejected(c)
  BY <1>1 DEF Refused, Rejected, MayRetry
<1>2. CASE Broken(c) BY <1>2 DEF Broken, MayRetry
<1>3. CASE Backoff(c) BY <1>3 DEF Backoff
<1>4. CASE Answered(c) \/ Opened(c) \/ Finished(c)
  BY <1>4 DEF Answered, Opened, Finished
<1>5. CASE Line(c)
  <2>1. CallOK' BY <1>5 DEF Line
  <2>2. NoRepeatedDelta'
    <3>1. CASE UNCHANGED got BY <1>5, <3>1 DEF Line
    <3>2. CASE got' = [got EXCEPT ![c] = Append(@, attempt[c])]
      <4>1. \A i \in 1..Len(got[c]) + 1 :
              Append(got[c], attempt[c])[i] = attempt[c]
        OBVIOUS
      <4> QED BY <1>5, <3>2, <4>1 DEF Line
    <3> QED BY <1>5, <3>1, <3>2 DEF Line
  <2> QED BY <2>1, <2>2
<1> QED BY <1>1, <1>2, <1>3, <1>4, <1>5 DEF Provider

LEMMA CallerKeepsCalls ==
  ASSUME CallInv, NEW c \in Calls,
         Caller(c) \/ (\E k \in Kinds : Start(c, k)) \/ EmbedNothing(c)
  PROVE  CallOK' /\ NoRepeatedDelta'
<1> USE DEF CallInv, GatewayTypeOK, CallOK, NoRepeatedDelta, Goto, Ends, stream,
            record, outside
<1>1. CASE Resume(c) BY <1>1 DEF Resume
<1>2. CASE Cancel(c) BY <1>2 DEF Cancel
<1>3. CASE Leave(c) BY <1>3 DEF Leave
<1>4. CASE Close(c) BY <1>4 DEF Close
<1>5. CASE \E k \in Kinds : Start(c, k) BY <1>5 DEF Start
<1>6. CASE EmbedNothing(c) BY <1>6 DEF EmbedNothing
<1> QED BY <1>1, <1>2, <1>3, <1>4, <1>5, <1>6 DEF Caller

LEMMA RecorderKeepsCalls ==
  ASSUME CallInv, NEW c \in Calls, Recorder(c)
  PROVE  CallOK' /\ NoRepeatedDelta'
<1> USE DEF CallInv, GatewayTypeOK, CallOK, NoRepeatedDelta, Goto, Ends, Lost, stream,
            record, outside
<1>1. CASE Select(c) BY <1>1 DEF Select
<1>2. CASE Insert(c) BY <1>2 DEF Insert
<1>3. CASE RecorderFails(c) BY <1>3 DEF RecorderFails
<1>4. CASE CancelRecord(c) BY <1>4 DEF CancelRecord
<1> QED BY <1>1, <1>2, <1>3, <1>4 DEF Recorder

LEMMA NextKeepsCalls ==
  ASSUME CallInv, GatewayNext PROVE CallOK' /\ NoRepeatedDelta'
<1>1. CASE DeleteConversation \/ Tick \/ UNCHANGED gatewayVars
  BY <1>1 DEF CallInv, CallOK, NoRepeatedDelta, DeleteConversation, Tick, gatewayVars,
     stream, record
<1> QED BY <1>1, ProviderKeepsCalls, CallerKeepsCalls, RecorderKeepsCalls
        DEF GatewayNext, GatewayStep

-----------------------------------------------------------------------------
(* The ledger.                                                             *)

LedgerInv == CallInv /\ LedgerOK /\ LedgerTrue /\ IsFiniteSet(ledger)

\* Of a call that is over nothing changes any more.
Settled ==
  \A c \in Calls :
    pc[c] = "done" =>
      /\ pc'[c] = "done" /\ loss'[c] = loss[c] /\ kind'[c] = kind[c]
      /\ outcome'[c] = outcome[c] /\ tokens'[c] = tokens[c]

\* A call that comes to its end without a record has a reason.
Excused ==
  \A c \in Calls :
    pc'[c] = "done" /\ pc[c] # "done" =>
      loss'[c] # "none" \/ (kind'[c] = "json" /\ outcome'[c] = "cancelled")

LEMMA SameLedger ==
  ASSUME LedgerInv, UNCHANGED ledger, Settled, Excused
  PROVE  LedgerOK' /\ LedgerTrue' /\ IsFiniteSet(ledger)'
<1>1. \A r \in ledger : r.call \in Calls /\ pc[r.call] = "done"
  BY DEF LedgerInv, CallInv, GatewayTypeOK, LedgerOK, Records
<1>2. LedgerTrue' BY <1>1 DEF LedgerInv, LedgerTrue, Settled
<1>3. LedgerOK' BY <1>1 DEF LedgerInv, LedgerOK, Recorded, Settled, Excused
<1> QED BY <1>2, <1>3 DEF LedgerInv

\* No step but those of the recorder writes to the ledger.
LEMMA OthersKeepLedger ==
  ASSUME LedgerInv, NEW c \in Calls,
         \/ Provider(c) \/ Caller(c)
         \/ (\E k \in Kinds : Start(c, k)) \/ EmbedNothing(c)
  PROVE  LedgerOK' /\ LedgerTrue' /\ IsFiniteSet(ledger)'
<1> SUFFICES UNCHANGED ledger /\ Settled /\ Excused BY SameLedger
<1> USE DEF LedgerInv, CallInv, GatewayTypeOK, Settled, Excused, Goto, Ends, RetryIf,
            stream, record
<1>1. CASE Refused(c) BY <1>1 DEF Refused
<1>2. CASE Rejected(c) BY <1>2 DEF Rejected
<1>3. CASE Broken(c) BY <1>3 DEF Broken
<1>4. CASE Backoff(c) \/ Answered(c) \/ Opened(c) \/ Finished(c)
  BY <1>4 DEF Backoff, Answered, Opened, Finished
<1>5. CASE Line(c) BY <1>5 DEF Line
<1>6. CASE Resume(c) \/ Leave(c) \/ Close(c) BY <1>6 DEF Resume, Leave, Close
<1>7. CASE Cancel(c) BY <1>7 DEF Cancel, Kinds
<1>8. CASE \E k \in Kinds : Start(c, k) BY <1>8 DEF Start
<1>9. CASE EmbedNothing(c) BY <1>9 DEF EmbedNothing
<1> QED BY <1>1, <1>2, <1>3, <1>4, <1>5, <1>6, <1>7, <1>8, <1>9 DEF Provider, Caller

\* The recorder adds at most the record of its own call, and then the call is
\* over.
LEMMA RecorderKeepsLedger ==
  ASSUME LedgerInv, NEW c \in Calls, Recorder(c)
  PROVE  LedgerOK' /\ LedgerTrue' /\ IsFiniteSet(ledger)'
<1>1. pc[c] # "done" /\ outcome[c] \in {"ok", "error", "cancelled"}
  BY DEF LedgerInv, CallInv, GatewayTypeOK, CallOK, Outcomes, Recorder, Select, Insert,
     RecorderFails, CancelRecord
<1>2. /\ RecordOf(c).call = c /\ RecordOf(c).tokens = tokens[c]
      /\ RecordOf(c).ok = IF outcome[c] = "ok" THEN "yes" ELSE "no"
  BY DEF RecordOf
<1>3. IsFiniteSet(ledger \cup {RecordOf(c)}) BY FS_AddElement DEF LedgerInv
<1>4. Settled
  BY <1>1 DEF LedgerInv, CallInv, GatewayTypeOK, Settled, Goto, Ends, Lost, stream, outside,
     Recorder, Select, Insert, RecorderFails, CancelRecord
<1>5. CASE UNCHANGED ledger /\ (Select(c) \/ RecorderFails(c) \/ CancelRecord(c))
  <2>1. Excused
    BY <1>5 DEF LedgerInv, CallInv, GatewayTypeOK, Excused, Goto, Lost, Select,
       RecorderFails, CancelRecord
  <2> QED BY <1>4, <1>5, <2>1, SameLedger
<1>6. CASE UNCHANGED ledger /\ Insert(c)
  <2>1. loss' = [loss EXCEPT ![c] = "deleted"] \/ RecordOf(c) \in ledger
    BY <1>6 DEF Insert, Lost
  <2>2. RecordOf(c) \notin ledger BY <1>1, <1>2 DEF LedgerInv, LedgerOK
  <2>3. Excused
    BY <1>6, <2>1, <2>2
    DEF LedgerInv, CallInv, GatewayTypeOK, Excused, Goto, Lost, Insert
  <2> QED BY <1>4, <1>6, <2>3, SameLedger
<1>7. CASE /\ ledger' = ledger \cup {RecordOf(c)} /\ pc' = [pc EXCEPT ![c] = "done"]
           /\ outcome'[c] = outcome[c] \/ (outcome'[c] = "cancelled" /\ loss'[c] = "cancelled")
  <2>1. \A r \in ledger : r.call \in Calls /\ pc[r.call] = "done" /\ r.call # c
    BY <1>1 DEF LedgerInv, CallInv, GatewayTypeOK, LedgerOK, Records
  <2>2. pc'[c] = "done" /\ tokens'[c] = tokens[c]
    BY <1>7 DEF LedgerInv, CallInv, GatewayTypeOK, Recorder, Select, Insert,
       RecorderFails, CancelRecord, stream
  <2>3. LedgerTrue'
    <3> SUFFICES ASSUME NEW r \in ledger'
                 PROVE  /\ r.tokens = tokens'[r.call]
                        /\ r.ok = "no" => outcome'[r.call] \in {"error", "cancelled"}
                        /\ r.ok = "yes" => outcome'[r.call] = "ok"
                                             \/ loss'[r.call] = "cancelled"
      BY DEF LedgerTrue
    <3>1. CASE r \in ledger BY <1>4, <2>1, <3>1 DEF LedgerInv, LedgerTrue, Settled
    <3>2. CASE r = RecordOf(c) BY <1>1, <1>2, <1>7, <2>2, <3>2
    <3> QED BY <1>7, <3>1, <3>2
  <2>4. LedgerOK'
    <3>1. \A r \in ledger' : pc'[r.call] = "done"
      BY <1>2, <1>4, <1>7, <2>1, <2>2 DEF Settled
    <3>2. \A r, s \in ledger' : r.call = s.call => r = s
      BY <1>2, <1>7, <2>1 DEF LedgerInv, LedgerOK
    <3>3. ASSUME NEW d \in Calls, pc'[d] = "done", loss'[d] = "none",
                 ~(kind'[d] = "json" /\ outcome'[d] = "cancelled")
          PROVE  Recorded(d)'
      <4>1. CASE d = c BY <1>2, <1>7, <4>1 DEF Recorded
      <4>2. CASE d # c
        <5>1. pc[d] = "done" BY <1>7, <3>3, <4>2 DEF LedgerInv, CallInv, GatewayTypeOK
        <5> QED BY <1>4, <1>7, <3>3, <5>1 DEF Settled, LedgerInv, LedgerOK, Recorded
      <4> QED BY <4>1, <4>2
    <3> QED BY <3>1, <3>2, <3>3 DEF LedgerOK
  <2> QED BY <1>3, <1>7, <2>3, <2>4
<1>8. CASE Select(c) BY <1>5, <1>8 DEF Select
<1>9. CASE Insert(c)
  BY <1>6, <1>7, <1>9 DEF Insert, Goto, Lost
<1>10. CASE RecorderFails(c) BY <1>5, <1>10 DEF RecorderFails
<1>11. CASE CancelRecord(c)
  <2>1. outcome'[c] = "cancelled" /\ loss'[c] = "cancelled"
    BY <1>11 DEF CancelRecord, Ends, Lost, LedgerInv, CallInv, GatewayTypeOK
  <2> QED BY <1>5, <1>7, <1>11, <2>1 DEF CancelRecord, Goto, Lost
<1> QED BY <1>8, <1>9, <1>10, <1>11 DEF Recorder

LEMMA NextKeepsLedger ==
  ASSUME LedgerInv, GatewayNext
  PROVE  LedgerOK' /\ LedgerTrue' /\ IsFiniteSet(ledger)'
<1>1. CASE DeleteConversation \/ Tick \/ UNCHANGED gatewayVars
  BY <1>1 DEF LedgerInv, LedgerOK, LedgerTrue, Recorded, DeleteConversation, Tick, gatewayVars,
     stream, record
<1> QED BY <1>1, OthersKeepLedger, RecorderKeepsLedger DEF GatewayNext, GatewayStep

\* What holds of calls and ledger, as the run counts it.
LEMMA LedgerCounts == GatewayInv => Accounted /\ LedgerTrue
<1> SUFFICES ASSUME GatewayInv PROVE Accounted
  BY DEF GatewayInv
<1> SUFFICES ASSUME NEW c \in Calls
             PROVE  LET mine == {r \in ledger : r.call = c}
                    IN  /\ Cardinality(mine) <= 1
                        /\ pc[c] # "done" => mine = {}
                        /\ pc[c] = "done" /\ loss[c] = "none"
                             /\ ~(kind[c] = "json" /\ outcome[c] = "cancelled") => mine # {}
  BY DEF Accounted
<1> DEFINE mine == {r \in ledger : r.call = c}
<1>1. Cardinality(mine) <= 1
  <2>1. CASE mine = {} BY <2>1, FS_EmptySet
  <2>2. CASE mine # {}
    <3>1. PICK x : x \in mine BY <2>2
    <3>2. mine = {x} BY <3>1 DEF GatewayInv, LedgerOK
    <3>3. Cardinality({x}) = 1 BY FS_Singleton
    <3> QED BY <3>2, <3>3
  <2> QED BY <2>1, <2>2
<1>2. pc[c] # "done" => mine = {} BY DEF GatewayInv, LedgerOK
<1>3. pc[c] = "done" /\ loss[c] = "none" /\ ~(kind[c] = "json" /\ outcome[c] = "cancelled")
        => mine # {}
  BY DEF GatewayInv, LedgerOK, Recorded
<1> QED BY <1>1, <1>2, <1>3

-----------------------------------------------------------------------------
(* The gateway in NL2SQL and in the product.                               *)

LEMMA GatewayInNext == [Next]_vars => GatewayNext
<1> SUFFICES ASSUME [Next]_vars PROVE GatewayNext
  OBVIOUS
<1>1. CASE (Generate \/ DropTable) /\ UNCHANGED reportVars
  <2>1. CASE Ask BY <2>1 DEF Ask, GatewayNext, Kinds
  <2>2. CASE ~Ask
    BY <1>1, <2>2 DEF Generate, DropTable, ListTables, ReadSchemas, Reply, RunFails,
       RunReturns, Explain, Interrupt, GatewayNext
  <2> QED BY <2>1, <2>2
<1>2. CASE Others \/ GatewayStep BY <1>2 DEF Others, GatewayNext
<1>3. CASE UNCHANGED gatewayVars BY <1>3 DEF GatewayNext
<1> QED BY <1>1, <1>2, <1>3 DEF Next, vars

LEMMA NextKeepsGateway == GatewayInv /\ [Next]_vars => GatewayInv'
<1> SUFFICES ASSUME GatewayInv, [Next]_vars PROVE GatewayInv'
  OBVIOUS
<1>1. GatewayNext BY GatewayInNext
<1>2. LedgerInv BY DEF GatewayInv, LedgerInv, CallInv
<1>3. GatewayTypeOK' BY <1>1, GatewayTyped DEF GatewayInv
<1>4. CallOK' /\ NoRepeatedDelta' BY <1>1, <1>2, NextKeepsCalls DEF LedgerInv
<1>5. LedgerOK' /\ LedgerTrue' /\ IsFiniteSet(ledger)' BY <1>1, <1>2, NextKeepsLedger
<1> QED BY <1>3, <1>4, <1>5 DEF GatewayInv

LEMMA GatewayInvariant == Spec => []GatewayInv
<1>1. Init => GatewayInv BY InitGateway
<1>2. GatewayInv /\ [Next]_vars => GatewayInv' BY NextKeepsGateway
<1> QED BY <1>1, <1>2, PTL DEF Spec

\* However often a streamed call is tried, and wherever it breaks, the deltas
\* its caller is given are all from one attempt (chat_stream, emitted_data).
THEOREM DeltasOnce == Spec => []NoRepeatedDelta
<1>1. GatewayInv => NoRepeatedDelta BY DEF GatewayInv
<1> QED BY <1>1, GatewayInvariant, PTL

\* The ledger is complete and true: one record of every call that has ended, but
\* for those that are lost for a reason, and none that contradicts its caller.
THEOREM LedgerIsExact == Spec => []LedgerExact
<1>1. GatewayInv => LedgerExact BY LedgerCounts DEF LedgerExact
<1> QED BY <1>1, GatewayInvariant, PTL

-----------------------------------------------------------------------------
(* The usage pages.                                                        *)

Later(r) == {s \in ledger : s.at > r.at}
Tied(r)  == \E s \in ledger \ {r} : s.at = r.at

\* While the client reads, a record it has not been given, and with a time of
\* its own, has at least as many later ones as the pages so far.
PageInv ==
  /\ reading \in {"no", "yes", "done"} /\ offset \in Nat
  /\ base \subseteq ledger /\ seen \subseteq ledger
  /\ reading = "no" => offset = 0
  /\ reading = "yes" =>
       \A r \in base \ seen : Tied(r) \/ Cardinality(Later(r)) >= offset
  /\ reading = "done" => \A r \in base \ seen : Tied(r)

\* A record that is not among the newest n has n others before it.
LEMMA NewestCut ==
  ASSUME NEW S, IsFiniteSet(S), NEW n \in Nat, NEW T \in Newest(S, n), NEW r \in S \ T
  PROVE  /\ T \subseteq S /\ Cardinality(T) = n
         /\ \A t \in T : t.at >= r.at
<1>1. T \in SUBSET S BY DEF Newest
<1>2. /\ Cardinality(T) <= Cardinality(S) /\ Cardinality(T) # Cardinality(S)
      /\ Cardinality(S) \in Nat /\ Cardinality(T) \in Nat
  BY <1>1, FS_Subset, FS_CardinalityType
<1>3. Cardinality(T) = (IF Cardinality(S) < n THEN Cardinality(S) ELSE n)
  BY DEF Newest
<1> QED BY <1>1, <1>2, <1>3 DEF Newest

LEMMA LedgerGrows == GatewayTypeOK /\ GatewayNext => ledger \subseteq ledger'
  BY DEF GatewayNext, GatewayStep, Provider, Caller, Recorder, Start, EmbedNothing, Refused,
     Rejected, Broken, Backoff, Answered, Opened, Line, Finished, Resume, Cancel, Leave,
     Close, Select, Insert, RecorderFails, CancelRecord, DeleteConversation, Tick,
     gatewayVars, record

\* New records come later or are tied, and are never in the way.
LEMMA GrowthKeepsPages ==
  ASSUME PageInv, UNCHANGED reportVars, ledger \subseteq ledger', IsFiniteSet(ledger)'
  PROVE  PageInv'
<1>1. \A r : Tied(r) => Tied(r)' BY DEF Tied
<1>2. ASSUME NEW r PROVE /\ Cardinality(Later(r)) \in Nat /\ Cardinality(Later(r)') \in Nat
                         /\ Cardinality(Later(r)) <= Cardinality(Later(r)')
  <2>1. Later(r)' \in SUBSET ledger' /\ Later(r) \in SUBSET Later(r)' BY DEF Later
  <2> QED BY <2>1, FS_Subset, FS_CardinalityType
<1>3. \A r \in base \ seen : Cardinality(Later(r)) >= offset => Cardinality(Later(r)') >= offset
  BY <1>2 DEF PageInv
<1> QED BY <1>1, <1>3 DEF PageInv, reportVars

LEMMA OpenKeepsPages ==
  ASSUME PageInv, IsFiniteSet(ledger), Open, UNCHANGED ledger PROVE PageInv'
<1>1. ASSUME NEW r PROVE Cardinality(Later(r)') \in Nat
  <2>1. Later(r)' \in SUBSET ledger BY DEF Later
  <2> QED BY <2>1, FS_Subset, FS_CardinalityType
<1>2. \A r : Cardinality(Later(r)') >= 0 BY <1>1
<1> QED BY <1>2 DEF PageInv, Open

\* What a page leaves out, of the records with a time of their own, is older
\* than the page and than the pages before it.
LEMMA TurnKeepsPages ==
  ASSUME PageInv, IsFiniteSet(ledger), ledger \subseteq Records, Turn, UNCHANGED ledger
  PROVE  PageInv'
<1>1. PICK page \in Pages :
        /\ seen' = seen \cup page
        /\ reading' = IF Cardinality(page) < PageSize THEN "done" ELSE "yes"
  BY DEF Turn
<1>2. reading = "yes" /\ offset' = offset + PageSize /\ base' = base
      /\ offset \in Nat /\ PageSize \in Nat
  BY PageAssumption DEF Turn, PageInv
<1>3. PICK before \in Newest(ledger, offset) : page \in Newest(ledger \ before, PageSize)
  BY <1>1 DEF Pages
<1>4. page \subseteq ledger /\ before \subseteq ledger BY <1>3 DEF Newest
<1>5. IsFiniteSet(ledger \ before) BY FS_Subset
<1>6. ASSUME NEW r \in base' \ seen', ~Tied(r)
      PROVE  Cardinality(page) = PageSize /\ Cardinality(Later(r)) >= offset + PageSize
  <2>1. r \in ledger /\ r \in base \ seen /\ r \notin page
    BY <1>1, <1>2, <1>6 DEF PageInv
  <2>2. IsFiniteSet(Later(r)) /\ Cardinality(Later(r)) \in Nat
    <3>1. Later(r) \in SUBSET ledger BY DEF Later
    <3> QED BY <3>1, FS_Subset, FS_CardinalityType
  <2>3. Cardinality(Later(r)) >= offset BY <1>2, <1>6, <2>1 DEF PageInv
  <2>4. \A s \in ledger : s.at \in Int BY DEF Records
  <2>5. r \notin before
    <3> SUFFICES ASSUME r \in before PROVE FALSE
      OBVIOUS
    <3>1. \A s \in Later(r) : s \in before BY <1>3, <2>1, <2>4 DEF Newest, Later
    <3>2. r \notin Later(r) BY <2>1, <2>4 DEF Later
    <3>3. IsFiniteSet(before) /\ Cardinality(before) \in Nat
      BY <1>4, FS_Subset, FS_CardinalityType
    <3>4. Cardinality(Later(r)) <= Cardinality(before)
          /\ Cardinality(Later(r)) # Cardinality(before)
      BY <3>1, <3>2, <3>3, FS_Subset
    <3>5. Cardinality(before) <= offset
      <4>1. Cardinality(ledger) \in Nat BY FS_CardinalityType
      <4>2. Cardinality(before) =
              (IF Cardinality(ledger) < offset THEN Cardinality(ledger) ELSE offset)
        BY <1>3 DEF Newest
      <4> QED BY <1>2, <4>1, <4>2
    <3> QED BY <1>2, <2>2, <2>3, <3>3, <3>4, <3>5
  <2>6. Cardinality(before) = offset /\ \A t \in before : t.at >= r.at
    BY <1>2, <1>3, <2>1, <2>5, NewestCut
  <2>7. /\ page \subseteq ledger \ before /\ Cardinality(page) = PageSize
        /\ \A t \in page : t.at >= r.at
    BY <1>2, <1>3, <1>5, <2>1, <2>5, NewestCut
  <2>8. before \cup page \in SUBSET Later(r)
    BY <1>4, <1>6, <2>1, <2>4, <2>5, <2>6, <2>7 DEF Later, Tied
  <2>9. Cardinality(before \cup page) = offset + PageSize
    <3>1. IsFiniteSet(before) /\ IsFiniteSet(page) BY <1>4, FS_Subset
    <3>2. before \cap page = {} BY <2>7
    <3>3. Cardinality(before \cup page) =
            Cardinality(before) + Cardinality(page) - Cardinality(before \cap page)
      BY <3>1, FS_Union
    <3>4. Cardinality(before \cap page) = 0 BY <3>2, FS_EmptySet
    <3> QED BY <1>2, <2>6, <2>7, <3>3, <3>4
  <2>10. Cardinality(before \cup page) <= Cardinality(Later(r)) BY <2>2, <2>8, FS_Subset
  <2> QED BY <1>2, <2>2, <2>7, <2>9, <2>10
<1>7. \A r : Tied(r)' = Tied(r) /\ Later(r)' = Later(r) BY DEF Tied, Later
<1>8. reading' \in {"yes", "done"} /\ offset' \in Nat BY <1>1, <1>2
<1>9. base' \subseteq ledger' /\ seen' \subseteq ledger' BY <1>1, <1>2, <1>4 DEF PageInv
<1>10. reading' = "yes" =>
         \A r \in base' \ seen' : Tied(r)' \/ Cardinality(Later(r)') >= offset'
  BY <1>2, <1>6, <1>7
<1>11. reading' = "done" => \A r \in base' \ seen' : Tied(r)'
  <2>1. reading' = "done" => Cardinality(page) # PageSize BY <1>1, <1>2
  <2> QED BY <1>6, <1>7, <2>1
<1> QED BY <1>8, <1>9, <1>10, <1>11 DEF PageInv

LEMMA NextKeepsPages == GatewayInv /\ GatewayInv' /\ PageInv /\ [Next]_vars => PageInv'
<1> SUFFICES ASSUME GatewayInv, GatewayInv', PageInv, [Next]_vars PROVE PageInv'
  OBVIOUS
<1>1. CASE UNCHANGED reportVars
  <2>1. ledger \subseteq ledger' BY LedgerGrows, GatewayInNext DEF GatewayInv
  <2> QED BY <1>1, <2>1, GrowthKeepsPages DEF GatewayInv
<1>2. CASE Read /\ UNCHANGED ledger
  BY <1>2, OpenKeepsPages, TurnKeepsPages DEF Read, GatewayInv, GatewayTypeOK
<1> QED BY <1>1, <1>2 DEF Next, vars, gatewayVars

\* Whoever reads the usage pages to the end, while calls go on being recorded,
\* has been given every record there was at the start, but for those that share
\* their time with another one (list_usage).
THEOREM PagesSkipOnlyTies == Spec => []PagesComplete
<1>1. Init => PageInv BY DEF Init, ReportInit, PageInv
<1>2. PageInv => PagesComplete BY DEF PageInv, PagesComplete, Tied
<1>3. GatewayInv /\ GatewayInv' /\ PageInv /\ [Next]_vars => PageInv' BY NextKeepsPages
<1> QED BY <1>1, <1>2, <1>3, GatewayInvariant, PTL DEF Spec

-----------------------------------------------------------------------------
(* A question.                                                             *)

\* How tries, errors and calls go together at each step of generate.
QuestionOK ==
  /\ IsFiniteSet(asked) /\ \A c \in asked : pc[c] # "idle"
  /\ q \in {"wait", "explain"} => current \in asked
  /\ q \in {"off", "idle", "schema"} => tries = 0 /\ errors = 0 /\ asked = {}
  /\ q \in {"ask", "wait", "run", "classify", "explain"} =>
       tries >= 1 /\ errors = tries - 1
  /\ q = "ask" => Cardinality(asked) = tries - 1
  /\ q \in {"wait", "run", "classify"} => Cardinality(asked) = tries
  /\ q = "explain" => Cardinality(asked) = tries + 1
  /\ q # "done" => verdict = "none"

QuestionInv == TypeOK /\ QuestionOK /\ SqlVerdict

\* A call that has begun never waits to begin again.
Begun == \A c \in Calls : pc[c] # "idle" => pc'[c] # "idle"

LEMMA CallsStayBegun == GatewayTypeOK /\ GatewayNext => Begun
<1> SUFFICES ASSUME GatewayTypeOK, GatewayNext PROVE Begun
  OBVIOUS
<1> USE DEF GatewayTypeOK, Begun, Goto, RetryIf, Lost
<1>1. ASSUME NEW c \in Calls, Provider(c) PROVE Begun
  BY <1>1 DEF Provider, Refused, Rejected, Broken, Backoff, Answered, Opened, Line, Finished
<1>2. ASSUME NEW c \in Calls, Caller(c) PROVE Begun
  BY <1>2 DEF Caller, Resume, Cancel, Leave, Close
<1>3. ASSUME NEW c \in Calls, Recorder(c) PROVE Begun
  BY <1>3 DEF Recorder, Select, Insert, RecorderFails, CancelRecord
<1>4. ASSUME NEW c \in Calls, (\E k \in Kinds : Start(c, k)) \/ EmbedNothing(c) PROVE Begun
  BY <1>4 DEF Start, EmbedNothing
<1>5. CASE DeleteConversation \/ Tick \/ UNCHANGED gatewayVars
  BY <1>5 DEF DeleteConversation, Tick, gatewayVars
<1> QED BY <1>1, <1>2, <1>3, <1>4, <1>5 DEF GatewayNext, GatewayStep

\* Steps of the gateway, and of the reader, leave the question alone.
LEMMA OthersKeepQuestion ==
  ASSUME QuestionInv, GatewayTypeOK', Begun, ReportTypeOK', UNCHANGED sqlVars
  PROVE  QuestionInv'
<1>1. TypeOK' BY DEF QuestionInv, TypeOK, sqlVars
<1>2. SqlVerdict' BY DEF QuestionInv, SqlVerdict, sqlVars
<1>3. QuestionOK' BY DEF QuestionInv, QuestionOK, TypeOK, sqlVars, Begun
<1> QED BY <1>1, <1>2, <1>3 DEF QuestionInv

\* Asking adds a new call.
LEMMA AskKeepsQuestion ==
  ASSUME QuestionInv, GatewayTypeOK', Begun, UNCHANGED reportVars, Ask
  PROVE  QuestionInv'
<1>1. PICK c \in Calls : Start(c, "json") /\ asked' = asked \cup {c} /\ current' = c
  BY DEF Ask
<1>2. pc[c] = "idle" /\ pc'[c] # "idle"
  BY <1>1 DEF Start, Goto, QuestionInv, TypeOK, GatewayTypeOK
<1>3. IsFiniteSet(asked') /\ Cardinality(asked') = Cardinality(asked) + 1
  BY <1>1, <1>2, FS_AddElement DEF QuestionInv, QuestionOK
<1>4. ReportTypeOK' BY DEF QuestionInv, TypeOK, ReportTypeOK, reportVars
<1>5. /\ q' = (IF q = "ask" THEN "wait" ELSE "explain") /\ q \in {"ask", "classify"}
      /\ UNCHANGED <<table, tries, errors, spent, verdict>>
  BY DEF Ask
<1>6. TypeOK' BY <1>1, <1>4, <1>5 DEF QuestionInv, TypeOK
<1>7. SqlVerdict' BY <1>5 DEF QuestionInv, QuestionOK, SqlVerdict
<1>8. Cardinality(asked) \in Nat BY FS_CardinalityType DEF QuestionInv, QuestionOK
<1>9. \A d \in asked' : pc'[d] # "idle"
  BY <1>1, <1>2 DEF QuestionInv, QuestionOK, TypeOK, Begun
<1>10. QuestionOK'
  BY <1>1, <1>3, <1>5, <1>8, <1>9 DEF QuestionInv, QuestionOK, TypeOK
<1> QED BY <1>6, <1>7, <1>10 DEF QuestionInv

\* The other steps of generate, and the table.
LEMMA GenerateKeepsQuestion ==
  ASSUME QuestionInv, UNCHANGED <<gatewayVars, reportVars>>,
         (Generate /\ ~Ask) \/ DropTable
  PROVE  QuestionInv'
<1>1. GatewayTypeOK' /\ ReportTypeOK'
  BY DEF QuestionInv, TypeOK, GatewayTypeOK, ReportTypeOK, gatewayVars, reportVars
<1>2. UNCHANGED pc BY DEF gatewayVars
<1>3. Cardinality(asked) \in Nat /\ Cardinality({}) = 0
  BY FS_CardinalityType, FS_EmptySet DEF QuestionInv, QuestionOK
<1>4. \A c \in Calls : tokens[c] \in Nat BY DEF QuestionInv, TypeOK, GatewayTypeOK
<1> USE <1>1, <1>2, <1>3, <1>4, SqlAssumption
    DEF QuestionInv, QuestionOK, TypeOK, SqlVerdict, Conclude
<1>5. CASE ListTables BY <1>5 DEF ListTables
<1>6. CASE ReadSchemas BY <1>6 DEF ReadSchemas
<1>7. CASE Reply BY <1>7 DEF Reply
<1>8. CASE RunFails BY <1>8 DEF RunFails
<1>9. CASE RunReturns BY <1>9 DEF RunReturns
<1>10. CASE Explain BY <1>10 DEF Explain
<1>11. CASE Interrupt BY <1>11 DEF Interrupt
<1>12. CASE DropTable BY <1>12 DEF DropTable
<1> QED BY <1>5, <1>6, <1>7, <1>8, <1>9, <1>10, <1>11, <1>12 DEF Generate

LEMMA ReadTyped ==
  ASSUME ReportTypeOK, ledger \subseteq Records, Read \/ UNCHANGED reportVars
  PROVE  ReportTypeOK'
<1>1. CASE Open BY <1>1 DEF Open, ReportTypeOK
<1>2. CASE Turn
  <2>1. \A page \in Pages : page \subseteq ledger BY DEF Pages, Newest
  <2> QED BY <1>2, <2>1, PageAssumption DEF Turn, ReportTypeOK
<1>3. CASE UNCHANGED reportVars BY <1>3 DEF reportVars, ReportTypeOK
<1> QED BY <1>1, <1>2, <1>3 DEF Read

LEMMA NextKeepsQuestion ==
  GatewayInv /\ GatewayInv' /\ QuestionInv /\ [Next]_vars => QuestionInv'
<1> SUFFICES ASSUME GatewayInv, GatewayInv', QuestionInv, [Next]_vars PROVE QuestionInv'
  OBVIOUS
<1>1. GatewayTypeOK' /\ Begun
  BY GatewayInNext, CallsStayBegun DEF GatewayInv
<1>2. CASE (Generate \/ DropTable) /\ UNCHANGED reportVars
  <2>1. CASE Ask BY <1>1, <1>2, <2>1, AskKeepsQuestion
  <2>2. CASE ~Ask
    <3>1. UNCHANGED gatewayVars
      BY <1>2, <2>2 DEF Generate, DropTable, ListTables, ReadSchemas, Reply, RunFails,
         RunReturns, Explain, Interrupt
    <3> QED BY <1>2, <2>2, <3>1, GenerateKeepsQuestion
  <2> QED BY <2>1, <2>2
<1>3. CASE UNCHANGED sqlVars /\ (Read \/ UNCHANGED reportVars)
  <2>1. ReportTypeOK'
    BY <1>3, ReadTyped DEF QuestionInv, TypeOK, GatewayTypeOK
  <2> QED BY <1>1, <1>3, <2>1, OthersKeepQuestion
<1> QED BY <1>2, <1>3 DEF Next, vars

LEMMA InitQuestion == Init => QuestionInv
<1> SUFFICES ASSUME Init PROVE QuestionInv
  OBVIOUS
<1>1. GatewayTypeOK BY InitGateway DEF GatewayInv
<1>2. IsFiniteSet({}) /\ Cardinality({}) = 0 BY FS_EmptySet
<1> QED BY <1>1, <1>2, SqlAssumption
        DEF Init, ReportInit, QuestionInv, TypeOK, ReportTypeOK, QuestionOK, SqlVerdict

LEMMA QuestionInvariant == Spec => []QuestionInv
<1>1. Init => QuestionInv BY InitQuestion
<1>2. GatewayInv /\ GatewayInv' /\ QuestionInv /\ [Next]_vars => QuestionInv'
  BY NextKeepsQuestion
<1> QED BY <1>1, <1>2, GatewayInvariant, PTL DEF Spec

\* Every variable of the gateway, the pages and the question keeps its type, for
\* any number of calls and retries.
THEOREM GatewayTypeCorrect == Spec => []TypeOK
<1>1. QuestionInv => TypeOK BY DEF QuestionInv
<1> QED BY <1>1, QuestionInvariant, PTL

\* Status, attempts and errors of a result fit together and to the calls made
\* for it, whatever the model answers and the database refuses (generate).
THEOREM VerdictFits == Spec => []SqlVerdict
<1>1. QuestionInv => SqlVerdict BY DEF QuestionInv
<1> QED BY <1>1, QuestionInvariant, PTL

-----------------------------------------------------------------------------
(* The usage of a question.                                                *)

\* The call whose answer is not counted yet.
Awaited == IF q \in {"wait", "explain"} THEN {current} ELSE {}

\* Until an error leaves generate, what was spent is the sum over the calls that
\* were answered, and these are all over.
BooksOK ==
  q # "raised" =>
    /\ spent = SumFunctionOnSet(tokens, asked \ Awaited)
    /\ \A c \in asked \ Awaited : pc[c] = "done" /\ outcome[c] = "ok"

\* A call that is over is not touched again.
Kept == \A c \in Calls : pc[c] = "done" =>
          pc'[c] = "done" /\ tokens'[c] = tokens[c] /\ outcome'[c] = outcome[c]

LEMMA EndedKept == GatewayTypeOK /\ GatewayNext => Kept
<1> SUFFICES ASSUME GatewayTypeOK, GatewayNext PROVE Kept
  OBVIOUS
<1> USE DEF GatewayTypeOK, Kept, Goto, Ends, RetryIf, Lost, stream, record, outside
<1>1. ASSUME NEW c \in Calls, Provider(c) PROVE Kept
  BY <1>1 DEF Provider, Refused, Rejected, Broken, Backoff, Answered, Opened, Line, Finished
<1>2. ASSUME NEW c \in Calls, Caller(c) PROVE Kept
  BY <1>2 DEF Caller, Resume, Cancel, Leave, Close
<1>3. ASSUME NEW c \in Calls, Recorder(c) PROVE Kept
  BY <1>3 DEF Recorder, Select, Insert, RecorderFails, CancelRecord
<1>4. ASSUME NEW c \in Calls, (\E k \in Kinds : Start(c, k)) \/ EmbedNothing(c) PROVE Kept
  BY <1>4 DEF Start, EmbedNothing
<1>5. CASE DeleteConversation \/ Tick \/ UNCHANGED gatewayVars
  BY <1>5 DEF DeleteConversation, Tick, gatewayVars
<1> QED BY <1>1, <1>2, <1>3, <1>4, <1>5 DEF GatewayNext, GatewayStep

\* The sum over the answered calls is a number, and stays what it is.
LEMMA SpentKept ==
  ASSUME QuestionInv, BooksOK, GatewayTypeOK', Kept, NEW S \in SUBSET (asked \ Awaited),
         q # "raised"
  PROVE  /\ IsFiniteSet(S)
         /\ SumFunctionOnSet(tokens', S) = SumFunctionOnSet(tokens, S)
         /\ \A c \in S : pc'[c] = "done" /\ outcome'[c] = "ok"
<1>1. IsFiniteSet(S) /\ S \subseteq Calls
  BY FS_Subset DEF QuestionInv, QuestionOK, TypeOK
<1>2. \A c \in S : tokens[c] \in Int /\ tokens[c] = tokens'[c]
  BY <1>1 DEF QuestionInv, TypeOK, GatewayTypeOK, BooksOK, Kept
<1>3. SumFunctionOnSet(tokens', S) = SumFunctionOnSet(tokens, S)
  BY <1>1, <1>2, SumOfEqual
<1> QED BY <1>1, <1>3 DEF BooksOK, Kept

\* A new call is not among those that have begun.
LEMMA AskKeepsBooks ==
  ASSUME QuestionInv, BooksOK, GatewayTypeOK', Kept, Ask
  PROVE  BooksOK'
<1>1. PICK c \in Calls : Start(c, "json") /\ asked' = asked \cup {c} /\ current' = c
  BY DEF Ask
<1>2. c \notin asked BY <1>1 DEF Start, QuestionInv, QuestionOK
<1>3. Awaited = {} /\ Awaited' = {c} /\ q # "raised" /\ UNCHANGED spent
  BY <1>1 DEF Ask, Awaited
<1>4. asked' \ Awaited' = asked \ Awaited BY <1>1, <1>2, <1>3
<1> QED BY <1>3, <1>4, SpentKept DEF BooksOK

\* An answer is counted with the step that takes it.
LEMMA CountKeepsBooks ==
  ASSUME QuestionInv, BooksOK, UNCHANGED gatewayVars, Reply \/ Explain
  PROVE  BooksOK'
<1>1. q \in {"wait", "explain"} /\ Awaited = {current} /\ Awaited' = {}
      /\ pc[current] = "done" /\ UNCHANGED <<asked, current>>
  BY DEF Reply, Explain, Awaited, Conclude
<1>2. SUFFICES ASSUME q' # "raised" PROVE BooksOK' BY DEF BooksOK
<1>3. outcome[current] = "ok" /\ spent' = spent + tokens[current]
  BY <1>2 DEF Reply, Explain
<1>4. IsFiniteSet(asked) /\ \A x \in asked : tokens[x] \in Int
  BY DEF QuestionInv, QuestionOK, TypeOK, GatewayTypeOK
<1>5. current \in asked BY <1>1 DEF QuestionInv, QuestionOK
<1>6. spent = SumFunctionOnSet(tokens, asked \ {current}) BY <1>1 DEF BooksOK
<1>7. spent' = SumFunctionOnSet(tokens, asked)
  <2>1. SumFunctionOnSet(tokens, asked)
          = tokens[current] + SumFunctionOnSet(tokens, asked \ {current})
    BY <1>4, <1>5, SumSplits
  <2>2. spent \in Int BY DEF QuestionInv, TypeOK
  <2> QED BY <1>3, <1>4, <1>5, <1>6, <2>1, <2>2
<1>8. \A c \in asked : pc[c] = "done" /\ outcome[c] = "ok"
  BY <1>1, <1>3 DEF BooksOK
<1>9. asked \ {} = asked OBVIOUS
<1> QED BY <1>1, <1>7, <1>8, <1>9 DEF BooksOK, gatewayVars

\* Other steps count nothing and wait for nothing new.
LEMMA SilentKeepsBooks ==
  ASSUME QuestionInv, BooksOK, GatewayTypeOK', Kept, UNCHANGED <<asked, spent>>,
         q' # "raised" => q # "raised" /\ Awaited' = Awaited
  PROVE  BooksOK'
BY SpentKept DEF BooksOK

LEMMA NextKeepsBooks ==
  GatewayInv /\ GatewayInv' /\ QuestionInv /\ BooksOK /\ [Next]_vars => BooksOK'
<1> SUFFICES ASSUME GatewayInv, GatewayInv', QuestionInv, BooksOK, [Next]_vars
             PROVE  BooksOK'
  OBVIOUS
<1>1. GatewayTypeOK' /\ Kept
  BY GatewayInNext, EndedKept DEF GatewayInv
<1>2. CASE UNCHANGED sqlVars
  <2>1. Awaited' = Awaited /\ UNCHANGED <<asked, spent, q>> BY <1>2 DEF Awaited, sqlVars
  <2> QED BY <1>1, <2>1, SilentKeepsBooks
<1>3. CASE Ask BY <1>1, <1>3, AskKeepsBooks
<1>4. CASE Reply \/ Explain
  <2>1. UNCHANGED gatewayVars BY <1>4 DEF Reply, Explain
  <2> QED BY <1>4, <2>1, CountKeepsBooks
<1>5. CASE ListTables \/ ReadSchemas \/ RunFails \/ RunReturns \/ Interrupt \/ DropTable
  <2>1. UNCHANGED <<asked, spent>> /\ (q' # "raised" => q # "raised" /\ Awaited' = Awaited)
    BY <1>5 DEF ListTables, ReadSchemas, RunFails, RunReturns, Interrupt, DropTable,
       Conclude, Awaited, QuestionInv, QuestionOK
  <2> QED BY <1>1, <2>1, SilentKeepsBooks
<1> QED BY <1>2, <1>3, <1>4, <1>5 DEF Next, Generate, vars

\* The records of calls that are over and were not lost name each call once.
LEMMA LedgerAddsUp ==
  ASSUME GatewayInv, IsFiniteSet(asked), asked \subseteq Calls,
         \A c \in asked : pc[c] = "done" /\ outcome[c] = "ok" /\ loss[c] = "none"
  PROVE  SumFunctionOnSet([r \in ledger |-> r.tokens], {r \in ledger : r.call \in asked})
           = SumFunctionOnSet(tokens, asked)
<1> DEFINE T == {r \in ledger : r.call \in asked}
           g == [r \in ledger |-> r.tokens]
           m == [r \in T |-> r.call]
<1>1. IsFiniteSet(T) BY FS_Subset DEF GatewayInv
<1>2. \A x \in asked : tokens[x] \in Int BY DEF GatewayInv, GatewayTypeOK
<1>3. m \in [T -> asked] OBVIOUS
<1>4. \A s, t \in T : m[s] = m[t] => s = t BY DEF GatewayInv, LedgerOK
<1>5. \A x \in asked : \E t \in T : m[t] = x
  BY DEF GatewayInv, LedgerOK, Recorded
<1>6. \A t \in T : g[t] = tokens[m[t]] BY DEF GatewayInv, LedgerTrue
<1> HIDE DEF T, g, m
<1>7. SumFunctionOnSet(g, T) = SumFunctionOnSet(tokens, asked)
  BY <1>1, <1>2, <1>3, <1>4, <1>5, <1>6, SumOfImage
<1> QED BY <1>7 DEF T, g

LEMMA BooksInvariant == Spec => []BooksOK
<1>1. Init => BooksOK
  <2>1. SumFunctionOnSet(tokens, {}) = 0
    BY FS_EmptySet, SumSplits
  <2>2. Init => q \in {"off", "idle"} /\ asked = {} /\ spent = 0 BY DEF Init
  <2> QED BY <2>1, <2>2 DEF BooksOK, Awaited
<1>2. GatewayInv /\ GatewayInv' /\ QuestionInv /\ BooksOK /\ [Next]_vars => BooksOK'
  BY NextKeepsBooks
<1> QED BY <1>1, <1>2, GatewayInvariant, QuestionInvariant, PTL DEF Spec

\* What a result says of the calls made for it is so: its usage is the sum over
\* all of them, the ledger has the same sum unless a record was lost, and status,
\* attempts and errors fit to their number (NL2SQLResult, usage_records).
THEOREM ResultIsRight == Spec => []SqlResult
<1>1. GatewayInv /\ QuestionInv /\ BooksOK => SqlResult
  <2> SUFFICES ASSUME GatewayInv, QuestionInv, BooksOK, verdict # "none" PROVE SqlBooks
    BY DEF SqlResult, QuestionInv, SqlBooks
  <2>1. q = "done" /\ IsFiniteSet(asked) /\ asked \subseteq Calls
    BY DEF QuestionInv, QuestionOK, TypeOK
  <2>2. asked \ Awaited = asked BY <2>1 DEF Awaited
  <2>3. /\ spent = SumFunctionOnSet(tokens, asked)
        /\ \A c \in asked : pc[c] = "done" /\ outcome[c] = "ok"
    BY <2>1, <2>2 DEF BooksOK
  <2> QED BY <2>1, <2>3, LedgerAddsUp DEF SqlBooks
<1> QED BY <1>1, GatewayInvariant, QuestionInvariant, BooksInvariant, PTL
===============================================================================
