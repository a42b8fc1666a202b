---------------------------- MODULE LotteryProofs ----------------------------
(***************************************************************************)
(* Proofs about Lottery for any events, users, pools and hash order, and   *)
(* any number of draws in flight.                                          *)
(***************************************************************************)
EXTENDS Lottery, TLAPS

AtWork == {"check", "request", "lastId", "poll", "commit", "record", "backfill"}

(* The contract has answered only requests that were made.                 *)
NoAnswerAhead == \A i \in RequestIds : requests[i] # "none" => i <= lastRequestId

(* A draw at work holds entries that are still rows of its event, and a    *)
(* request id that the contract gave out; once it has read its seed, that  *)
(* is the word of its request.                                             *)
HoldsEntries(d) ==
    draw[d].pc \in AtWork =>
        /\ draw[d].event \in Events
        /\ draw[d].entries # {}
        /\ draw[d].entries \subseteq EntriesOf(draw[d].event)

HoldsRequest(d) ==
    /\ draw[d].pc = "lastId" => lastRequestId # 0
    /\ draw[d].pc \in {"poll", "commit", "record", "backfill"} => draw[d].requestId \in RequestIds
    /\ draw[d].pc \in {"commit", "record", "backfill"} =>
          draw[d].seed \in Words /\ requests[draw[d].requestId] = draw[d].seed

(* A draw that has committed is the one its event's row tells of.          *)
HoldsResult(d) ==
    /\ draw[d].pc \in {"record", "backfill"} =>
          /\ drawResult[draw[d].event].drawn = "yes"
          /\ drawResult[draw[d].event].requestId = draw[d].requestId
          /\ drawResult[draw[d].event].seed = draw[d].seed
    /\ draw[d].pc = "backfill" => \E l \in drawLog : l.event = draw[d].event

DrawLocals == \A d \in Draws : HoldsEntries(d) /\ HoldsRequest(d) /\ HoldsResult(d)

(* The row of a drawn event names a request of the contract and a word.    *)
RowsHoldWords ==
    \A v \in Events : drawResult[v].drawn = "yes" =>
        drawResult[v].requestId \in RequestIds /\ drawResult[v].seed \in Words

LotteryInv ==
    /\ LotteryTypeOK
    /\ NoAnswerAhead
    /\ DrawLocals
    /\ RowsHoldWords
    /\ DrawIsReproducible
    /\ ProofMatchesDraw

(* Nothing has been asked, registered or drawn at the start.               *)
LEMMA LotteryInitially == LotteryInit => LotteryInv
<1> SUFFICES ASSUME LotteryInit PROVE LotteryInv
  OBVIOUS
<1> USE DEF LotteryInit, VrfInit, NoResult, IdleDraw
<1>1. LotteryTypeOK
  BY MaxRequestsAssumption, MaxWaitAssumption DEF LotteryTypeOK, VrfTypeOK, DrawPcs
<1>2. NoAnswerAhead /\ RowsHoldWords /\ ProofMatchesDraw
  BY DEF NoAnswerAhead, RowsHoldWords, ProofMatchesDraw
<1>3. DrawLocals
  BY DEF DrawLocals, HoldsEntries, HoldsRequest, HoldsResult, AtWork
<1>4. DrawIsReproducible
  BY DEF DrawIsReproducible, DecidedEntries, EntriesOf
<1>5. QED
  BY <1>1, <1>2, <1>3, <1>4 DEF LotteryInv

(* A step that leaves the entries, the rows and the chain alone keeps what *)
(* is said of them.                                                        *)
LEMMA TablesUnchanged ==
    ASSUME LotteryInv, UNCHANGED <<entry, drawResult, drawLog, requests>>
    PROVE  RowsHoldWords' /\ DrawIsReproducible' /\ ProofMatchesDraw'
<1>1. RowsHoldWords' /\ ProofMatchesDraw'
  BY DEF LotteryInv, RowsHoldWords, ProofMatchesDraw
<1>2. \A v \in Events : DecidedEntries(v)' = DecidedEntries(v)
  BY DEF DecidedEntries, EntriesOf
<1>3. DrawIsReproducible'
  BY <1>2 DEF LotteryInv, DrawIsReproducible
<1>4. QED
  BY <1>1, <1>3

(* The steps of a draw that change only its own locals.                    *)
LEMMA LocalStepPreserves ==
    ASSUME LotteryInv, NEW d \in Draws,
           \/ \E v \in Events : FindEntries(d, v)
           \/ CheckDrawn(d) \/ ReadLastRequestId(d) \/ Poll(d) \/ DrawDies(d)
    PROVE  LotteryInv'
<1>0. UNCHANGED <<vrfVars, entry, drawResult, drawLog, asked>>
  BY DEF FindEntries, CheckDrawn, ReadLastRequestId, Poll, DrawDies
<1>00. UNCHANGED <<requests, lastRequestId>>
  BY <1>0 DEF vrfVars
<1> USE DEF LotteryInv
<1>1. \A c \in Draws \ {d} : draw'[c] = draw[c]
  BY DEF FindEntries, CheckDrawn, ReadLastRequestId, Poll, DrawDies, LotteryTypeOK
<1>2. \A v \in Events : EntriesOf(v)' = EntriesOf(v)
  BY <1>0 DEF EntriesOf
<1> DEFINE Ids == 0..MaxRequests
           Waits == 0..MaxWait
           DrawRecord == [pc : DrawPcs, event : Events \cup {"none"},
                          entries : SUBSET Entries, requestId : Ids,
                          waited : Waits, seed : Words \cup {"none"}]
<1>3. draw' \in [Draws -> DrawRecord]
      /\ HoldsEntries(d)' /\ HoldsRequest(d)' /\ HoldsResult(d)'
  <2> USE DEF HoldsEntries, HoldsRequest, HoldsResult, AtWork, DrawPcs
  <2>1. CASE \E v \in Events : FindEntries(d, v)
    <3>1. PICK v \in Events : FindEntries(d, v)
      BY <2>1
    <3>2. EntriesOf(v) \in SUBSET Entries
      BY DEF EntriesOf
    <3> DEFINE found == EntriesOf(v)
               p == IF found = {} THEN "failed" ELSE "check"
               new == [IdleDraw EXCEPT !.event = v, !.entries = found, !.pc = p]
    <3>3. draw' = [draw EXCEPT ![d] = new] /\ found \in SUBSET Entries /\ found' = found
      BY <1>2, <3>1, <3>2 DEF FindEntries
    <3>4. p \in {"failed", "check"} /\ (p = "check" => found # {}) /\ 0 \in Ids /\ 0 \in Waits
      BY MaxRequestsAssumption, MaxWaitAssumption
    <3> HIDE DEF Ids, Waits
    <3>5. draw \in [Draws -> DrawRecord]
      BY DEF LotteryTypeOK, Ids, Waits
    <3>6. IdleDraw \in DrawRecord
      BY <3>4 DEF IdleDraw
    <3> HIDE DEF found, p
    <3>7. /\ new \in DrawRecord /\ new.pc = p /\ new.event = v /\ new.entries = found
      BY <3>3, <3>4, <3>6
    <3> HIDE DEF new
    <3>8. draw' \in [Draws -> DrawRecord]
      BY <3>3, <3>5, <3>7
    <3>9. draw'[d] = new
      BY <3>3, <3>5
    <3>10. HoldsEntries(d)' /\ HoldsRequest(d)' /\ HoldsResult(d)'
      BY <3>3, <3>4, <3>7, <3>9 DEF found
    <3>11. QED
      BY <3>8, <3>10
  <2>2. CASE CheckDrawn(d)
    <3>1. PICK p \in {"failed", "request"} : draw' = [draw EXCEPT ![d].pc = p]
      BY <2>2 DEF CheckDrawn
    <3>2. draw[d].pc = "check"
      BY <2>2 DEF CheckDrawn
    <3>3. QED
      BY <3>1, <3>2, <1>2, <1>0, <1>00 DEF LotteryTypeOK, DrawLocals
  <2>3. CASE ReadLastRequestId(d)
    <3>1. draw[d].pc = "lastId" /\ lastRequestId # 0
      BY <2>3 DEF ReadLastRequestId, DrawLocals
    <3>2. lastRequestId \in 0..MaxRequests /\ lastRequestId \in RequestIds
      BY <3>1, MaxRequestsAssumption DEF LotteryTypeOK, VrfTypeOK, RequestIds
    <3>3. draw' = [draw EXCEPT ![d].pc = "poll", ![d].requestId = lastRequestId]
      BY <2>3 DEF ReadLastRequestId
    <3>4. /\ draw'[d].pc = "poll" /\ draw'[d].requestId = lastRequestId
          /\ draw'[d].event = draw[d].event /\ draw'[d].entries = draw[d].entries
      BY <3>3 DEF LotteryTypeOK
    <3>5. draw' \in [Draws -> DrawRecord]
      <4>1. draw \in [Draws -> DrawRecord] /\ lastRequestId \in Ids
        BY <3>2 DEF LotteryTypeOK
      <4> HIDE DEF Ids, Waits
      <4>2. [draw[d] EXCEPT !.pc = "poll", !.requestId = lastRequestId] \in DrawRecord
        BY <4>1
      <4> HIDE DEF DrawRecord
      <4>3. QED
        BY <3>3, <4>1, <4>2
    <3>6. HoldsEntries(d)' /\ HoldsRequest(d)' /\ HoldsResult(d)'
      BY <3>1, <3>2, <3>4, <1>2 DEF DrawLocals
    <3>7. QED
      BY <3>5, <3>6
  <2>4. CASE Poll(d)
    <3>1. draw[d].pc = "poll"
      BY <2>4 DEF Poll
    <3>5. CASE \E now \in (draw[d].waited + 1)..MaxWait : draw' = [draw EXCEPT ![d].waited = now]
      <4>1. PICK now \in (draw[d].waited + 1)..MaxWait : draw' = [draw EXCEPT ![d].waited = now]
        BY <3>5
      <4>2. draw \in [Draws -> DrawRecord] /\ draw[d].waited \in Waits
        BY DEF LotteryTypeOK
      <4>3. now \in Waits
        BY <4>1, <4>2, MaxWaitAssumption
      <4> HIDE DEF Ids, Waits
      <4>4. [draw[d] EXCEPT !.waited = now] \in DrawRecord
        BY <4>2, <4>3
      <4>5. draw' \in [Draws -> DrawRecord]
        <5> HIDE DEF DrawRecord
        <5>1. QED
          BY <4>1, <4>2, <4>4
      <4>6. /\ draw'[d].pc = "poll" /\ draw'[d].requestId = draw[d].requestId
            /\ draw'[d].event = draw[d].event /\ draw'[d].entries = draw[d].entries
        BY <3>1, <4>1, <4>2
      <4>7. HoldsEntries(d)' /\ HoldsRequest(d)' /\ HoldsResult(d)'
        BY <3>1, <4>6, <1>00, <1>2 DEF DrawLocals
      <4>8. QED
        BY <4>5, <4>7
    <3>2. CASE /\ Fulfilled(draw[d].requestId)
               /\ draw' = [draw EXCEPT ![d].pc = "commit",
                                       ![d].seed = requests[draw[d].requestId]]
      <4>1. /\ draw'[d].pc = "commit" /\ draw'[d].requestId = draw[d].requestId
            /\ draw'[d].seed = requests[draw[d].requestId] /\ draw'[d].seed \in Words
            /\ draw'[d].event = draw[d].event /\ draw'[d].entries = draw[d].entries
        BY <3>2 DEF LotteryTypeOK, Fulfilled
      <4>2. draw' \in [Draws -> DrawRecord]
        <5>1. draw \in [Draws -> DrawRecord] /\ requests[draw[d].requestId] \in Words
          BY <3>2 DEF LotteryTypeOK, Fulfilled
        <5> HIDE DEF Ids, Waits
        <5>2. [draw[d] EXCEPT !.pc = "commit", !.seed = requests[draw[d].requestId]]
                \in DrawRecord
          BY <5>1
        <5> HIDE DEF DrawRecord
        <5>3. QED
          BY <3>2, <5>1, <5>2
      <4>3. HoldsEntries(d)' /\ HoldsRequest(d)' /\ HoldsResult(d)'
        BY <3>1, <4>1, <1>00, <1>2 DEF DrawLocals
      <4>4. QED
        BY <4>2, <4>3
    <3>3. CASE draw' = [draw EXCEPT ![d].pc = "failed"]
      BY <3>3, <1>0, <1>00 DEF LotteryTypeOK, DrawLocals
    <3>4. QED
      BY <2>4, <3>2, <3>3, <3>5 DEF Poll
  <2>5. CASE DrawDies(d)
    <3>1. draw' = [draw EXCEPT ![d].pc = "failed"]
      BY <2>5 DEF DrawDies
    <3>2. QED
      BY <3>1, <1>0, <1>00 DEF LotteryTypeOK, DrawLocals
  <2>6. QED
    BY <2>1, <2>2, <2>3, <2>4, <2>5
<1>4. LotteryTypeOK'
  BY <1>0, <1>00, <1>3 DEF LotteryTypeOK, VrfTypeOK
<1>5. DrawLocals'
  <2> SUFFICES ASSUME NEW c \in Draws \ {d}
               PROVE  HoldsEntries(c)' /\ HoldsRequest(c)' /\ HoldsResult(c)'
    BY <1>3 DEF DrawLocals
  <2>1. draw'[c] = draw[c]
    BY <1>1
  <2>2. QED
    BY <2>1, <1>0, <1>00, <1>2 DEF DrawLocals, HoldsEntries, HoldsRequest, HoldsResult
<1>6. NoAnswerAhead'
  BY <1>00 DEF NoAnswerAhead
<1>7. QED
  BY <1>0, <1>00, <1>4, <1>5, <1>6, TablesUnchanged

(* A draw whose locals a step leaves alone keeps what they say, as long as *)
(* words, drawn rows and emitted events stay and no entry disappears.      *)
LEMMA OtherDrawKeeps ==
    ASSUME LotteryInv, NEW c \in Draws, draw'[c] = draw[c],
           \A v \in Events : EntriesOf(v) \subseteq EntriesOf(v)',
           lastRequestId # 0 => lastRequestId' # 0,
           \A i \in RequestIds : requests[i] \in Words => requests'[i] = requests[i],
           \A v \in Events : drawResult[v].drawn = "yes" =>
               /\ drawResult'[v].drawn = "yes"
               /\ drawResult'[v].requestId = drawResult[v].requestId
               /\ drawResult'[v].seed = drawResult[v].seed,
           drawLog \subseteq drawLog'
    PROVE  HoldsEntries(c)' /\ HoldsRequest(c)' /\ HoldsResult(c)'
<1>1. HoldsEntries(c) /\ HoldsRequest(c) /\ HoldsResult(c)
  BY DEF LotteryInv, DrawLocals
<1>2. HoldsEntries(c)'
  BY <1>1 DEF HoldsEntries
<1>3. HoldsRequest(c)'
  BY <1>1 DEF HoldsRequest
<1>4. HoldsResult(c)'
  BY <1>1 DEF HoldsResult, HoldsEntries, AtWork
<1>5. QED
  BY <1>2, <1>3, <1>4

(* A late registration joins no draw.                                      *)
LEMMA RegisterPreserves ==
    ASSUME LotteryInv, NEW e \in Entries, Register(e)
    PROVE  LotteryInv'
<1> USE DEF LotteryInv
<1>1. /\ entry[e] = "ABSENT" /\ entry' = [entry EXCEPT ![e] = "PENDING"]
      /\ asked' = [asked EXCEPT ![e] = lastRequestId]
      /\ UNCHANGED <<requests, lastRequestId, drawResult, draw, drawLog>>
  BY DEF Register, vrfVars
<1>2. LotteryTypeOK'
  BY <1>1 DEF LotteryTypeOK, VrfTypeOK
<1>3. \A v \in Events : EntriesOf(v) \subseteq EntriesOf(v)' /\ DecidedEntries(v)' = DecidedEntries(v)
  BY <1>1 DEF EntriesOf, DecidedEntries, LotteryTypeOK
<1>4. \A v \in Events : \A o \in DecidedEntries(v) : entry'[o] = entry[o]
  BY <1>1 DEF DecidedEntries, EntriesOf, LotteryTypeOK
<1>5. DrawIsReproducible'
  BY <1>1, <1>3, <1>4 DEF DrawIsReproducible
<1>6. DrawLocals'
  BY <1>1, <1>3, OtherDrawKeeps DEF DrawLocals
<1>7. QED
  BY <1>1, <1>2, <1>5, <1>6 DEF NoAnswerAhead, RowsHoldWords, ProofMatchesDraw

(* A request takes an id that nobody has worked with.                      *)
LEMMA RequestPreserves ==
    ASSUME LotteryInv, NEW d \in Draws, RequestVrf(d)
    PROVE  LotteryInv'
<1> USE DEF LotteryInv
<1> DEFINE Ids == 0..MaxRequests
           Waits == 0..MaxWait
           next == lastRequestId + 1
<1>1. /\ draw[d].pc = "request" /\ lastRequestId < MaxRequests
      /\ lastRequestId' = next
      /\ requests' = [requests EXCEPT ![next] = "pending"]
      /\ draw' = [draw EXCEPT ![d].pc = "lastId"]
      /\ UNCHANGED <<entry, drawResult, drawLog, asked>>
  BY DEF RequestVrf, RequestRandomWords
<1>2. next \in RequestIds /\ next \in Ids /\ next # 0 /\ ~(next <= lastRequestId)
  BY <1>1, MaxRequestsAssumption DEF LotteryTypeOK, VrfTypeOK, RequestIds
<1>3. requests[next] = "none"
  BY <1>2 DEF NoAnswerAhead
<1>4. \A i \in RequestIds : requests[i] \in Words => requests'[i] = requests[i]
  BY <1>1, <1>3, WordsAssumption DEF LotteryTypeOK, VrfTypeOK
<1>5. NoAnswerAhead'
  <2> SUFFICES ASSUME NEW i \in RequestIds, requests'[i] # "none"
               PROVE  i <= lastRequestId'
    BY DEF NoAnswerAhead
  <2>1. i = next \/ requests[i] # "none"
    BY <1>1 DEF LotteryTypeOK, VrfTypeOK
  <2>2. i = next \/ i <= lastRequestId
    BY <2>1 DEF NoAnswerAhead
  <2>3. QED
    BY <1>1, <2>2 DEF LotteryTypeOK, VrfTypeOK, RequestIds
<1>6. \A v \in Events : EntriesOf(v)' = EntriesOf(v) /\ DecidedEntries(v)' = DecidedEntries(v)
  BY <1>1 DEF EntriesOf, DecidedEntries
<1>7. LotteryTypeOK'
  <2>1. requests' \in [RequestIds -> Words \cup {"none", "pending"}]
    BY <1>1, <1>2 DEF LotteryTypeOK, VrfTypeOK
  <2> DEFINE DrawRecord == [pc : DrawPcs, event : Events \cup {"none"},
                            entries : SUBSET Entries, requestId : Ids,
                            waited : Waits, seed : Words \cup {"none"}]
  <2>2. draw \in [Draws -> DrawRecord]
    BY DEF LotteryTypeOK
  <2> HIDE DEF Ids, Waits, next
  <2>3. [draw[d] EXCEPT !.pc = "lastId"] \in DrawRecord
    BY <1>2, <2>2 DEF DrawPcs
  <2>4. draw' \in [Draws -> DrawRecord]
    <3> HIDE DEF DrawRecord
    <3>1. QED
      BY <1>1, <2>2, <2>3
  <2>5. QED
    BY <1>1, <1>2, <2>1, <2>4 DEF LotteryTypeOK, VrfTypeOK, Ids, Waits
<1> HIDE DEF next
<1>8. DrawLocals'
  <2>1. ASSUME NEW c \in Draws, c # d
        PROVE  HoldsEntries(c)' /\ HoldsRequest(c)' /\ HoldsResult(c)'
    <3>1. draw'[c] = draw[c]
      BY <1>1, <2>1 DEF LotteryTypeOK
    <3>2. QED
      BY <1>1, <1>2, <1>4, <1>6, <3>1, OtherDrawKeeps
  <2>2. /\ draw'[d].pc = "lastId" /\ draw'[d].event = draw[d].event
        /\ draw'[d].entries = draw[d].entries
    BY <1>1 DEF LotteryTypeOK
  <2>3. HoldsEntries(d)' /\ HoldsRequest(d)' /\ HoldsResult(d)'
    BY <1>1, <1>2, <1>6, <2>2
       DEF DrawLocals, HoldsEntries, HoldsRequest, HoldsResult, AtWork
  <2>4. QED
    BY <2>1, <2>3 DEF DrawLocals
<1>9. DrawIsReproducible'
  <2>1. ASSUME NEW v \in Events, drawResult[v].drawn # "no"
        PROVE  requests'[drawResult[v].requestId] = drawResult[v].seed
    BY <1>4, <2>1 DEF DrawIsReproducible, RowsHoldWords, LotteryTypeOK
  <2>2. QED
    BY <1>1, <1>6, <2>1 DEF DrawIsReproducible
<1>10. QED
  BY <1>1, <1>5, <1>7, <1>8, <1>9 DEF RowsHoldWords, ProofMatchesDraw

(* The coordinator answers a request once.                                 *)
LEMMA FulfilPreserves ==
    ASSUME LotteryInv, NEW i \in RequestIds, NEW word \in Words, Fulfil(i, word)
    PROVE  LotteryInv'
<1> USE DEF LotteryInv
<1>1. /\ requests[i] = "pending" /\ requests' = [requests EXCEPT ![i] = word]
      /\ UNCHANGED <<lastRequestId, entry, drawResult, draw, drawLog, asked>>
  BY DEF Fulfil, RawFulfillRandomWords, lotteryVars
<1>2. \A j \in RequestIds : /\ requests[j] \in Words => requests'[j] = requests[j]
                            /\ requests'[j] # "none" => requests[j] # "none"
  BY <1>1, WordsAssumption DEF LotteryTypeOK, VrfTypeOK
<1>3. \A v \in Events : EntriesOf(v)' = EntriesOf(v) /\ DecidedEntries(v)' = DecidedEntries(v)
  BY <1>1 DEF EntriesOf, DecidedEntries
<1>4. LotteryTypeOK'
  BY <1>1 DEF LotteryTypeOK, VrfTypeOK
<1>5. NoAnswerAhead'
  BY <1>1, <1>2 DEF NoAnswerAhead
<1>6. DrawLocals'
  BY <1>1, <1>2, <1>3, OtherDrawKeeps DEF DrawLocals
<1>7. DrawIsReproducible'
  <2>1. ASSUME NEW v \in Events, drawResult[v].drawn # "no"
        PROVE  requests'[drawResult[v].requestId] = drawResult[v].seed
    BY <1>2, <2>1 DEF DrawIsReproducible, RowsHoldWords, LotteryTypeOK
  <2>2. QED
    BY <1>1, <1>3, <2>1 DEF DrawIsReproducible
<1>8. QED
  BY <1>1, <1>4, <1>5, <1>6, <1>7 DEF RowsHoldWords, ProofMatchesDraw

(* The commit decides exactly the entries the draw read, and no other      *)
(* event's: none of its event's entries was decided before.                *)
LEMMA CommitDecides ==
    ASSUME LotteryInv, NEW v \in Events, NEW set \in SUBSET EntriesOf(v), NEW seed,
           NotYetDrawn(v), entry' = Decided(set, seed)
    PROVE  /\ entry' \in [Entries -> {"ABSENT", "PENDING", "WON", "LOST"}]
           /\ \A o \in Events : EntriesOf(o) \subseteq EntriesOf(o)'
           /\ DecidedEntries(v)' = set
           /\ \A e \in set : entry'[e] = "WON" <=> Wins(e, set, seed)
           /\ \A o \in Events \ {v} :
                 /\ DecidedEntries(o)' = DecidedEntries(o)
                 /\ \A e \in DecidedEntries(o) : entry'[e] = entry[e]
<1> DEFINE won(e) == Wins(e, set, seed)
           decided(o) == {e \in Entries : e[1] = o /\ entry[e] \in {"WON", "LOST"}}
<1>1. entry \in [Entries -> {"ABSENT", "PENDING", "WON", "LOST"}]
  BY DEF LotteryInv, LotteryTypeOK
<1>2. \A o \in Events : DecidedEntries(o) = decided(o) /\ DecidedEntries(o)' = decided(o)'
  BY DEF DecidedEntries, EntriesOf
<1>3. DecidedEntries(v) = {}
  BY DEF LotteryInv, DrawIsReproducible, NotYetDrawn
<1>4. entry' = [e \in Entries |-> IF e \notin set THEN entry[e]
                                  ELSE IF won(e) THEN "WON" ELSE "LOST"]
  BY DEF Decided
<1> HIDE DEF won
<1>5. \A e \in Entries \ set : entry'[e] = entry[e]
  BY <1>4
<1>6. \A e \in set : e \in Entries /\ e[1] = v
  BY DEF EntriesOf
<1>7. \A e \in set : entry'[e] \in {"WON", "LOST"} /\ (entry'[e] = "WON" <=> won(e))
  BY <1>4, <1>6
<1>8. entry' \in [Entries -> {"ABSENT", "PENDING", "WON", "LOST"}]
  BY <1>1, <1>4
<1>9. \A o \in Events : EntriesOf(o) \subseteq EntriesOf(o)'
  BY <1>5, <1>7 DEF EntriesOf
<1>10. DecidedEntries(v)' = set
  <2>1. decided(v) = {}
    BY <1>2, <1>3
  <2>2. decided(v)' = set
    BY <2>1, <1>5, <1>6, <1>7
  <2>3. QED
    BY <1>2, <2>2
<1>11. ASSUME NEW o \in Events \ {v}
       PROVE  /\ DecidedEntries(o)' = DecidedEntries(o)
              /\ \A e \in DecidedEntries(o) : entry'[e] = entry[e]
  <2>1. \A e \in Entries : e[1] = o => entry'[e] = entry[e]
    BY <1>5, <1>6
  <2>2. decided(o)' = decided(o)
    BY <2>1
  <2>3. QED
    BY <1>2, <2>1, <2>2
<1>12. QED
  BY <1>7, <1>8, <1>9, <1>10, <1>11 DEF won

(* A commit writes the row of an event that has none; one that comes too   *)
(* late writes nothing.                                                    *)
LEMMA CommitPreserves ==
    ASSUME LotteryInv, NEW d \in Draws, CommitDraw(d)
    PROVE  LotteryInv'
<1> USE DEF LotteryInv
<1>0. PICK v, set, seed, i : /\ v = draw[d].event /\ set = draw[d].entries
                             /\ seed = draw[d].seed /\ i = draw[d].requestId
  OBVIOUS
<1>1. /\ draw[d].pc = "commit" /\ UNCHANGED <<requests, lastRequestId, drawLog, asked>>
  BY DEF CommitDraw, vrfVars
<1>2. /\ v \in Events /\ set # {} /\ set \in SUBSET EntriesOf(v)
      /\ i \in RequestIds /\ seed \in Words /\ requests[i] = seed
  BY <1>0, <1>1 DEF DrawLocals, HoldsEntries, HoldsRequest, AtWork
<1> DEFINE Ids == 0..MaxRequests
           row == [drawn |-> "yes", requestId |-> i, seed |-> seed, proof |-> "null"]
<1>3. NoAnswerAhead'
  BY <1>1 DEF NoAnswerAhead
<1>4. CASE NotYetDrawn(v)
  <2>1. /\ drawResult' = [drawResult EXCEPT ![v] = row]
        /\ entry' = Decided(set, seed)
        /\ draw' = [draw EXCEPT ![d].pc = "record"]
    BY <1>0, <1>4 DEF CommitDraw
  <2>2. /\ entry' \in [Entries -> {"ABSENT", "PENDING", "WON", "LOST"}]
        /\ \A o \in Events : EntriesOf(o) \subseteq EntriesOf(o)'
        /\ DecidedEntries(v)' = set
        /\ \A e \in set : entry'[e] = "WON" <=> Wins(e, set, seed)
        /\ \A o \in Events \ {v} :
              /\ DecidedEntries(o)' = DecidedEntries(o)
              /\ \A e \in DecidedEntries(o) : entry'[e] = entry[e]
    BY <1>2, <1>4, <2>1, CommitDecides
  <2>3. /\ row.drawn = "yes" /\ row.requestId = i /\ row.seed = seed /\ row.proof = "null"
    OBVIOUS
  <2>4. i \in Ids
    BY <1>2 DEF RequestIds
  <2>5. row \in [drawn : {"no", "yes"}, requestId : Ids,
                 seed : Words \cup {"none"}, proof : {"null", "txHash"}]
    <3> HIDE DEF Ids
    <3>1. QED
      BY <1>2, <2>4
  <2> HIDE DEF row
  <2>6. /\ drawResult'[v] = row /\ \A o \in Events \ {v} : drawResult'[o] = drawResult[o]
        /\ drawResult[v].drawn = "no"
    BY <1>2, <1>4, <2>1 DEF LotteryTypeOK, NotYetDrawn
  <2>7. /\ draw'[d].pc = "record" /\ draw'[d].event = v /\ draw'[d].entries = set
        /\ draw'[d].requestId = i /\ draw'[d].seed = seed
        /\ \A c \in Draws \ {d} : draw'[c] = draw[c]
    BY <1>0, <2>1 DEF LotteryTypeOK
  <2>8. LotteryTypeOK'
    <3>1. drawResult' \in [Events -> [drawn : {"no", "yes"}, requestId : 0..MaxRequests,
                              seed : Words \cup {"none"}, proof : {"null", "txHash"}]]
      BY <1>2, <2>1, <2>5 DEF LotteryTypeOK
    <3>2. draw' \in [Draws -> [pc : DrawPcs, event : Events \cup {"none"},
                           entries : SUBSET Entries, requestId : 0..MaxRequests,
                           waited : 0..MaxWait, seed : Words \cup {"none"}]]
      BY <2>1 DEF LotteryTypeOK, DrawPcs
    <3>3. QED
      BY <1>1, <2>2, <3>1, <3>2 DEF LotteryTypeOK, VrfTypeOK
  <2>9. DrawLocals'
    <3>1. \A c \in Draws \ {d} : HoldsEntries(c)' /\ HoldsRequest(c)' /\ HoldsResult(c)'
      BY <1>1, <2>2, <2>6, <2>7, OtherDrawKeeps
    <3>2. set \subseteq EntriesOf(v)'
      BY <1>2, <2>2
    <3>3. HoldsEntries(d)' /\ HoldsRequest(d)' /\ HoldsResult(d)'
      BY <1>1, <1>2, <2>3, <2>6, <2>7, <3>2 DEF HoldsEntries, HoldsRequest, HoldsResult
    <3>4. QED
      BY <3>1, <3>3 DEF DrawLocals
  <2>10. RowsHoldWords'
    BY <1>2, <2>3, <2>6 DEF RowsHoldWords
  <2>11. DrawIsReproducible'
    <3> SUFFICES ASSUME NEW o \in Events
                 PROVE  (IF drawResult[o].drawn = "no" THEN DecidedEntries(o) = {}
                         ELSE /\ requests[drawResult[o].requestId] = drawResult[o].seed
                              /\ DecidedEntries(o) # {}
                              /\ \A e \in DecidedEntries(o) : entry[e] = "WON" <=>
                                     Wins(e, DecidedEntries(o), drawResult[o].seed))'
      BY DEF DrawIsReproducible
    <3>1. CASE o = v
      BY <1>1, <1>2, <2>2, <2>3, <2>6, <3>1
    <3>2. CASE o # v
      BY <1>1, <2>2, <2>6, <3>2 DEF DrawIsReproducible
    <3>3. QED
      BY <3>1, <3>2
  <2>12. ProofMatchesDraw'
    <3>1. \A l \in drawLog : l.event # v /\ l.event \in Events
      BY <2>6 DEF ProofMatchesDraw, LotteryTypeOK
    <3>2. QED
      BY <1>1, <2>3, <2>6, <3>1 DEF ProofMatchesDraw
  <2>13. QED
    BY <1>3, <2>8, <2>9, <2>10, <2>11, <2>12
<1>5. CASE ~NotYetDrawn(v)
  <2>1. UNCHANGED <<entry, drawResult>> /\ draw' = [draw EXCEPT ![d].pc = "failed"]
    BY <1>0, <1>5 DEF CommitDraw
  <2>2. DrawDies(d)
    BY <1>1, <2>1 DEF DrawDies, vrfVars
  <2>3. QED
    BY <2>2, LocalStepPreserves
<1>6. QED
  BY <1>4, <1>5

(* What the chain is told, mined with or without a receipt, is what the    *)
(* row says.                                                               *)
LEMMA RecordPreserves ==
    ASSUME LotteryInv, NEW d \in Draws, RecordDraw(d)
    PROVE  LotteryInv'
<1> USE DEF LotteryInv
<1>0. PICK v, seed, i : v = draw[d].event /\ seed = draw[d].seed /\ i = draw[d].requestId
  OBVIOUS
<1> DEFINE l == [event |-> v, requestId |-> i, seed |-> seed]
<1>1. draw[d].pc = "record" /\ UNCHANGED <<requests, lastRequestId, entry, drawResult, asked>>
  BY DEF RecordDraw, vrfVars
<1>2. /\ v \in Events /\ i \in RequestIds /\ seed \in Words
      /\ drawResult[v].drawn = "yes" /\ drawResult[v].requestId = i /\ drawResult[v].seed = seed
  BY <1>0, <1>1 DEF DrawLocals, HoldsEntries, HoldsRequest, HoldsResult, AtWork
<1>3. PICK p \in {"backfill", "done"} :
        /\ draw' = [draw EXCEPT ![d].pc = p]
        /\ drawLog' = drawLog \cup {l} \/ (drawLog' = drawLog /\ p = "done")
  BY <1>0 DEF RecordDraw, DrawResultEmitted
<1>4. /\ l.event = v /\ l.requestId = i /\ l.seed = seed
      /\ l \in [event : Events, requestId : RequestIds, seed : Words]
  <2> HIDE DEF RequestIds
  <2>1. QED
    BY <1>2
<1> HIDE DEF l
<1>5. LotteryTypeOK'
  <2>1. draw' \in [Draws -> [pc : DrawPcs, event : Events \cup {"none"},
                         entries : SUBSET Entries, requestId : 0..MaxRequests,
                         waited : 0..MaxWait, seed : Words \cup {"none"}]]
    BY <1>3 DEF LotteryTypeOK, DrawPcs
  <2>2. drawLog' \subseteq [event : Events, requestId : RequestIds, seed : Words]
    BY <1>3, <1>4 DEF LotteryTypeOK
  <2>3. QED
    BY <1>1, <2>1, <2>2 DEF LotteryTypeOK, VrfTypeOK
<1>6. \A o \in Events : EntriesOf(o)' = EntriesOf(o) /\ DecidedEntries(o)' = DecidedEntries(o)
  BY <1>1 DEF EntriesOf, DecidedEntries
<1>7. /\ draw'[d].pc = p /\ draw'[d].event = v /\ draw'[d].entries = draw[d].entries
      /\ draw'[d].requestId = i /\ draw'[d].seed = seed
      /\ \A c \in Draws \ {d} : draw'[c] = draw[c]
  BY <1>0, <1>3 DEF LotteryTypeOK
<1>8. DrawLocals'
  <2>1. \A c \in Draws \ {d} : HoldsEntries(c)' /\ HoldsRequest(c)' /\ HoldsResult(c)'
    BY <1>1, <1>3, <1>6, <1>7, OtherDrawKeeps
  <2>2. HoldsEntries(d)' /\ HoldsRequest(d)'
    BY <1>0, <1>1, <1>6, <1>7 DEF DrawLocals, HoldsEntries, HoldsRequest, AtWork
  <2>3. HoldsResult(d)'
    BY <1>1, <1>2, <1>3, <1>4, <1>7 DEF HoldsResult
  <2>4. QED
    BY <2>1, <2>2, <2>3 DEF DrawLocals
<1>9. ProofMatchesDraw'
  BY <1>1, <1>2, <1>3, <1>4 DEF ProofMatchesDraw
<1>10. DrawIsReproducible'
  BY <1>1, <1>6 DEF DrawIsReproducible
<1>11. QED
  BY <1>1, <1>5, <1>8, <1>9, <1>10 DEF NoAnswerAhead, RowsHoldWords

(* The transaction hash goes to the row whose result was emitted.          *)
LEMMA BackfillPreserves ==
    ASSUME LotteryInv, NEW d \in Draws, BackfillProof(d)
    PROVE  LotteryInv'
<1> USE DEF LotteryInv
<1>0. PICK v : v = draw[d].event
  OBVIOUS
<1>1. /\ draw[d].pc = "backfill"
      /\ UNCHANGED <<requests, lastRequestId, entry, drawLog, asked>>
      /\ drawResult' = [drawResult EXCEPT ![v].proof = "txHash"]
      /\ draw' = [draw EXCEPT ![d].pc = "done"]
  BY <1>0 DEF BackfillProof, vrfVars
<1>2. v \in Events /\ \E l \in drawLog : l.event = v
  BY <1>0, <1>1 DEF DrawLocals, HoldsEntries, HoldsResult, AtWork
<1>3. LotteryTypeOK'
  <2> DEFINE Ids == 0..MaxRequests
             DrawRow == [drawn : {"no", "yes"}, requestId : Ids,
                         seed : Words \cup {"none"}, proof : {"null", "txHash"}]
  <2>1. drawResult' \in [Events -> DrawRow]
    <3>1. drawResult \in [Events -> DrawRow]
      BY DEF LotteryTypeOK
    <3> HIDE DEF Ids
    <3>2. [drawResult[v] EXCEPT !.proof = "txHash"] \in DrawRow
      BY <1>2, <3>1
    <3> HIDE DEF DrawRow
    <3>3. QED
      BY <1>1, <1>2, <3>1, <3>2
  <2>2. draw' \in [Draws -> [pc : DrawPcs, event : Events \cup {"none"},
                         entries : SUBSET Entries, requestId : 0..MaxRequests,
                         waited : 0..MaxWait, seed : Words \cup {"none"}]]
    BY <1>1 DEF LotteryTypeOK, DrawPcs
  <2>3. QED
    BY <1>1, <2>1, <2>2 DEF LotteryTypeOK, VrfTypeOK
<1>4. \A o \in Events : /\ drawResult'[o].drawn = drawResult[o].drawn
                        /\ drawResult'[o].requestId = drawResult[o].requestId
                        /\ drawResult'[o].seed = drawResult[o].seed
                        /\ o # v => drawResult'[o].proof = drawResult[o].proof
  BY <1>1 DEF LotteryTypeOK
<1>5. \A o \in Events : EntriesOf(o)' = EntriesOf(o) /\ DecidedEntries(o)' = DecidedEntries(o)
  BY <1>1 DEF EntriesOf, DecidedEntries
<1>6. draw'[d].pc = "done" /\ \A c \in Draws \ {d} : draw'[c] = draw[c]
  BY <1>1 DEF LotteryTypeOK
<1>7. DrawLocals'
  <2>1. \A c \in Draws \ {d} : HoldsEntries(c)' /\ HoldsRequest(c)' /\ HoldsResult(c)'
    BY <1>1, <1>4, <1>5, <1>6, OtherDrawKeeps
  <2>2. HoldsEntries(d)' /\ HoldsRequest(d)' /\ HoldsResult(d)'
    BY <1>6 DEF HoldsEntries, HoldsRequest, HoldsResult, AtWork
  <2>3. QED
    BY <2>1, <2>2 DEF DrawLocals
<1>8. ProofMatchesDraw'
  <2>1. \A l \in drawLog : l.event \in Events
    BY DEF LotteryTypeOK
  <2>2. QED
    BY <1>1, <1>2, <1>4, <2>1 DEF ProofMatchesDraw
<1>9. DrawIsReproducible'
  BY <1>1, <1>4, <1>5 DEF DrawIsReproducible
<1>10. QED
  BY <1>1, <1>3, <1>4, <1>7, <1>8, <1>9 DEF NoAnswerAhead, RowsHoldWords

(* Every step keeps the invariant.                                         *)
LEMMA LotteryPreserved ==
    ASSUME LotteryInv, [LotteryNext]_allVars
    PROVE  LotteryInv'
<1>1. CASE UNCHANGED allVars
  <2>1. UNCHANGED <<requests, lastRequestId, entry, drawResult, draw, drawLog, asked>>
    BY <1>1 DEF allVars, vrfVars, lotteryVars
  <2>2. LotteryTypeOK' /\ NoAnswerAhead'
    BY <2>1 DEF LotteryInv, LotteryTypeOK, VrfTypeOK, NoAnswerAhead
  <2>3. \A v \in Events : EntriesOf(v)' = EntriesOf(v)
    BY <2>1 DEF EntriesOf
  <2>4. DrawLocals'
    BY <2>1, <2>3, OtherDrawKeeps DEF DrawLocals
  <2>5. QED
    BY <2>1, <2>2, <2>4, TablesUnchanged DEF LotteryInv
<1>2. CASE LotteryNext
  BY <1>2, RegisterPreserves, LocalStepPreserves, RequestPreserves, FulfilPreserves,
     CommitPreserves, RecordPreserves, BackfillPreserves DEF LotteryNext, DrawStep
<1>3. QED
  BY <1>1, <1>2

(* The invariant holds in every reachable state.                           *)
LEMMA LotteryInvariant == LotterySpec => []LotteryInv
  BY LotteryInitially, LotteryPreserved, PTL DEF LotterySpec

-----------------------------------------------------------------------------
(* No entry has seen a request that was not made yet, and the entries of a *)
(* draw were registered before the request that it works with, be it its   *)
(* own or a later one.                                                     *)
EntersBefore(d) ==
    /\ draw[d].pc = "lastId" => \A e \in draw[d].entries : asked[e] < lastRequestId
    /\ draw[d].pc \in {"poll", "commit"} =>
          \A e \in draw[d].entries : asked[e] < draw[d].requestId

AskedInv ==
    /\ \A e \in Entries : asked[e] <= lastRequestId
    /\ \A d \in Draws : EntersBefore(d)
    /\ EntriesPrecedeTheirWord

(* Every step keeps the order of registrations and requests.               *)
LEMMA AskedPreserved ==
    ASSUME LotteryInv, AskedInv, [LotteryNext]_allVars
    PROVE  AskedInv'
<1> USE DEF AskedInv, EntersBefore
<1>0. /\ lastRequestId \in Nat /\ asked \in [Entries -> Nat]
      /\ \A d \in Draws : /\ draw[d].requestId \in Nat /\ draw[d].entries \subseteq Entries
                          /\ draw[d].pc = "lastId" => draw[d].event \in Events
      /\ \A v \in Events : drawResult[v].requestId \in Nat /\ DecidedEntries(v) \subseteq Entries
  BY MaxRequestsAssumption
     DEF LotteryInv, LotteryTypeOK, VrfTypeOK, DrawLocals, HoldsEntries, AtWork, DecidedEntries, EntriesOf
<1>1. ASSUME UNCHANGED <<lastRequestId, asked, entry, drawResult>>,
             \A d \in Draws : EntersBefore(d)'
      PROVE  AskedInv'
  BY <1>1 DEF EntriesPrecedeTheirWord, DecidedEntries, EntriesOf
<1>2. ASSUME NEW e \in Entries, Register(e) PROVE AskedInv'
  <2>1. /\ entry[e] = "ABSENT" /\ entry' = [entry EXCEPT ![e] = "PENDING"]
        /\ asked' = [asked EXCEPT ![e] = lastRequestId]
        /\ UNCHANGED <<lastRequestId, drawResult, draw>>
    BY <1>2 DEF Register, vrfVars
  <2>2. \A d \in Draws : draw[d].pc \in {"lastId", "poll", "commit"} => e \notin draw[d].entries
    BY <2>1 DEF LotteryInv, DrawLocals, HoldsEntries, AtWork, EntriesOf
  <2>3. \A v \in Events : DecidedEntries(v)' = DecidedEntries(v) /\ e \notin DecidedEntries(v)
    BY <2>1 DEF DecidedEntries, EntriesOf, LotteryInv, LotteryTypeOK
  <2>4. \A o \in Entries \ {e} : asked'[o] = asked[o]
    BY <1>0, <2>1
  <2>5. \A d \in Draws : EntersBefore(d)'
    BY <1>0, <2>1, <2>2, <2>4
  <2>6. EntriesPrecedeTheirWord'
    BY <1>0, <2>1, <2>3, <2>4 DEF EntriesPrecedeTheirWord
  <2>7. \A o \in Entries : asked'[o] <= lastRequestId'
    BY <1>0, <2>1
  <2>8. QED
    BY <2>5, <2>6, <2>7
<1>3. ASSUME NEW d \in Draws, RequestVrf(d) PROVE AskedInv'
  <2>1. /\ lastRequestId' = lastRequestId + 1 /\ draw' = [draw EXCEPT ![d].pc = "lastId"]
        /\ UNCHANGED <<entry, drawResult, asked>>
    BY <1>3 DEF RequestVrf, RequestRandomWords
  <2>2. \A c \in Draws : draw'[c].entries = draw[c].entries
                         /\ draw'[c].requestId = draw[c].requestId
                         /\ (c # d => draw'[c].pc = draw[c].pc)
                         /\ (c = d => draw'[c].pc = "lastId")
    BY <2>1 DEF LotteryInv, LotteryTypeOK
  <2>3. \A c \in Draws : EntersBefore(c)'
    BY <1>0, <2>1, <2>2
  <2>4. EntriesPrecedeTheirWord'
    BY <2>1 DEF EntriesPrecedeTheirWord, DecidedEntries, EntriesOf
  <2>5. QED
    BY <1>0, <2>1, <2>3, <2>4
<1>4. ASSUME NEW d \in Draws, ReadLastRequestId(d) PROVE AskedInv'
  <2>1. /\ draw[d].pc = "lastId"
        /\ draw' = [draw EXCEPT ![d].pc = "poll", ![d].requestId = lastRequestId]
        /\ UNCHANGED <<lastRequestId, entry, drawResult, asked>>
    BY <1>4 DEF ReadLastRequestId, vrfVars
  <2>2. \A c \in Draws : /\ draw'[c].entries = draw[c].entries
                         /\ (c # d => draw'[c] = draw[c])
                         /\ (c = d => draw'[c].pc = "poll" /\ draw'[c].requestId = lastRequestId)
    BY <2>1 DEF LotteryInv, LotteryTypeOK
  <2>3. \A c \in Draws : EntersBefore(c)'
    BY <2>1, <2>2
  <2>4. QED
    BY <1>1, <2>1, <2>3
<1>5. ASSUME NEW d \in Draws, CheckDrawn(d) \/ Poll(d) \/ RecordDraw(d) \/ DrawDies(d)
      PROVE  AskedInv'
  <2>1. UNCHANGED <<lastRequestId, entry, drawResult, asked>>
    BY <1>5 DEF CheckDrawn, Poll, RecordDraw, DrawDies, vrfVars
  <2>2. \A c \in Draws : /\ draw'[c].entries = draw[c].entries
                         /\ draw'[c].requestId = draw[c].requestId
                         /\ draw'[c].pc = "lastId" => draw[c].pc = "lastId"
                         /\ draw'[c].pc \in {"poll", "commit"} => draw[c].pc \in {"poll", "commit"}
    BY <1>5 DEF CheckDrawn, Poll, RecordDraw, DrawDies, LotteryInv, LotteryTypeOK
  <2>3. \A c \in Draws : EntersBefore(c)'
    BY <2>1, <2>2
  <2>4. QED
    BY <1>1, <2>1, <2>3
<1>6. ASSUME NEW d \in Draws, NEW v \in Events, FindEntries(d, v) PROVE AskedInv'
  <2> DEFINE new == [IdleDraw EXCEPT !.event = v, !.entries = EntriesOf(v),
                        !.pc = IF EntriesOf(v) = {} THEN "failed" ELSE "check"]
  <2>1. draw' = [draw EXCEPT ![d] = new] /\ UNCHANGED <<lastRequestId, entry, drawResult, asked>>
    BY <1>6 DEF FindEntries, vrfVars
  <2>2. new.pc \in {"failed", "check"}
    BY DEF IdleDraw
  <2> HIDE DEF new
  <2>3. \A c \in Draws : (c # d => draw'[c] = draw[c]) /\ (c = d => draw'[c] = new)
    BY <2>1 DEF LotteryInv, LotteryTypeOK
  <2>4. \A c \in Draws : EntersBefore(c)'
    BY <2>1, <2>2, <2>3
  <2>5. QED
    BY <1>1, <2>1, <2>4
<1>7. ASSUME NEW d \in Draws, CommitDraw(d) PROVE AskedInv'
  <2>0. PICK v, set, seed : v = draw[d].event /\ set = draw[d].entries /\ seed = draw[d].seed
    OBVIOUS
  <2>1. draw[d].pc = "commit" /\ UNCHANGED <<lastRequestId, asked>>
    BY <1>7 DEF CommitDraw, vrfVars
  <2>2. v \in Events /\ set \in SUBSET EntriesOf(v) /\ \A e \in set : asked[e] < draw[d].requestId
    BY <2>0, <2>1 DEF LotteryInv, DrawLocals, HoldsEntries, AtWork
  <2>3. PICK pc \in {"record", "failed"} : draw' = [draw EXCEPT ![d].pc = pc]
    BY <1>7 DEF CommitDraw
  <2>4. \A c \in Draws : EntersBefore(c)'
    BY <2>1, <2>3 DEF LotteryInv, LotteryTypeOK
  <2>5. CASE ~NotYetDrawn(v)
    <3>1. UNCHANGED <<entry, drawResult>>
      BY <1>7, <2>0, <2>5 DEF CommitDraw
    <3>2. QED
      BY <1>1, <2>1, <2>4, <3>1
  <2>6. CASE NotYetDrawn(v)
    <3>1. /\ entry' = Decided(set, seed)
          /\ drawResult'[v].requestId = draw[d].requestId
          /\ \A o \in Events \ {v} : drawResult'[o] = drawResult[o]
      BY <1>7, <2>0, <2>2, <2>6 DEF CommitDraw, LotteryInv, LotteryTypeOK
    <3>2. /\ DecidedEntries(v)' = set
          /\ \A o \in Events \ {v} : DecidedEntries(o)' = DecidedEntries(o)
      BY <2>2, <2>6, <3>1, CommitDecides
    <3>3. EntriesPrecedeTheirWord'
      BY <2>1, <2>2, <3>1, <3>2 DEF EntriesPrecedeTheirWord
    <3>4. QED
      BY <2>1, <2>4, <3>3
  <2>7. QED
    BY <2>5, <2>6
<1>8. ASSUME NEW d \in Draws, BackfillProof(d) PROVE AskedInv'
  <2>1. /\ draw' = [draw EXCEPT ![d].pc = "done"]
        /\ UNCHANGED <<lastRequestId, entry, asked>>
        /\ \A v \in Events : /\ drawResult'[v].requestId = drawResult[v].requestId
                             /\ drawResult'[v].drawn = drawResult[v].drawn
    BY <1>8 DEF BackfillProof, vrfVars, LotteryInv, LotteryTypeOK
  <2>2. \A c \in Draws : EntersBefore(c)'
    BY <2>1 DEF LotteryInv, LotteryTypeOK
  <2>3. \A v \in Events : DecidedEntries(v)' = DecidedEntries(v)
    BY <2>1 DEF DecidedEntries, EntriesOf
  <2>4. QED
    BY <2>1, <2>2, <2>3 DEF EntriesPrecedeTheirWord
<1>9. ASSUME NEW i \in RequestIds, NEW word \in Words, Fulfil(i, word) PROVE AskedInv'
  <2>1. UNCHANGED <<lastRequestId, asked, entry, drawResult, draw>>
    BY <1>9 DEF Fulfil, RawFulfillRandomWords, lotteryVars
  <2>2. QED
    BY <1>1, <2>1
<1>10. ASSUME UNCHANGED allVars PROVE AskedInv'
  <2>1. UNCHANGED <<lastRequestId, asked, entry, drawResult, draw>>
    BY <1>10 DEF allVars, lotteryVars, vrfVars
  <2>2. QED
    BY <1>1, <2>1
<1> HIDE DEF AskedInv
<1>11. QED
  BY <1>2, <1>3, <1>4, <1>5, <1>6, <1>7, <1>8, <1>9, <1>10 DEF LotteryNext, DrawStep

(* A draw never decides an entry that was registered after the request for *)
(* the deciding word was made, however registrations, draws of any events  *)
(* and their requests interleave and whosever request a draw picks up.     *)
THEOREM NobodyEntersKnowing == LotterySpec => []EntriesPrecedeTheirWord
<1>1. LotteryInit => AskedInv
  BY DEF LotteryInit, VrfInit, NoResult, IdleDraw, AskedInv, EntersBefore, EntriesPrecedeTheirWord
<1>2. QED
  BY <1>1, LotteryInvariant, AskedPreserved, PTL DEF LotterySpec, AskedInv

-----------------------------------------------------------------------------
(* Rows, entries, locals of draws and the contract keep their types.       *)
THEOREM LotteryTypeCorrect == LotterySpec => []LotteryTypeOK
  BY LotteryInvariant, PTL DEF LotteryInv

(* Whoever knows the recorded seed can redo a draw, however many draws     *)
(* raced for the event and whatever registrations came meanwhile, and the  *)
(* seed is the contract's word for the recorded request.                   *)
THEOREM DrawsAreReproducible == LotterySpec => []DrawIsReproducible
  BY LotteryInvariant, PTL DEF LotteryInv

(* The chain's account of a draw never differs from the database's.        *)
THEOREM ProofsMatchDraws == LotterySpec => []ProofMatchesDraw
  BY LotteryInvariant, PTL DEF LotteryInv

(* No step changes the seed or the outcome of an event that has been       *)
(* drawn: not a second draw, a late registration or the backfill.          *)
THEOREM DrawsAreFinal == LotterySpec => DrawIsFinal
<1> DEFINE Final == \A v \in Events : drawResult[v].drawn = "yes" =>
                       /\ drawResult'[v].seed = drawResult[v].seed
                       /\ DecidedEntries(v) = DecidedEntries(v)'
                       /\ \A e \in DecidedEntries(v) : entry'[e] = entry[e]
<1>1. LotteryInv /\ [LotteryNext]_allVars => [Final]_allVars
  <2> SUFFICES ASSUME LotteryInv, LotteryNext PROVE Final
    OBVIOUS
  <2>1. ASSUME UNCHANGED <<entry, drawResult>> PROVE Final
    BY <2>1 DEF DecidedEntries, EntriesOf
  <2>2. ASSUME NEW e \in Entries, Register(e) PROVE Final
    <3>1. /\ entry[e] = "ABSENT" /\ entry' = [entry EXCEPT ![e] = "PENDING"]
          /\ UNCHANGED drawResult
      BY <2>2 DEF Register
    <3>2. QED
      BY <3>1 DEF DecidedEntries, EntriesOf, LotteryInv, LotteryTypeOK
  <2>3. ASSUME NEW d \in Draws, CommitDraw(d) PROVE Final
    <3>0. PICK v, set, seed : v = draw[d].event /\ set = draw[d].entries /\ seed = draw[d].seed
      OBVIOUS
    <3>1. draw[d].pc = "commit"
      BY <2>3 DEF CommitDraw
    <3>2. v \in Events /\ set \in SUBSET EntriesOf(v)
      BY <3>0, <3>1 DEF LotteryInv, DrawLocals, HoldsEntries, AtWork
    <3>3. CASE NotYetDrawn(v)
      <4>1. /\ entry' = Decided(set, seed)
            /\ \A o \in Events \ {v} : drawResult'[o] = drawResult[o]
        BY <2>3, <3>0, <3>3 DEF CommitDraw, LotteryInv, LotteryTypeOK
      <4>2. \A o \in Events \ {v} :
               /\ DecidedEntries(o)' = DecidedEntries(o)
               /\ \A e \in DecidedEntries(o) : entry'[e] = entry[e]
        BY <3>2, <3>3, <4>1, CommitDecides
      <4>3. QED
        BY <3>3, <4>1, <4>2 DEF NotYetDrawn
    <3>4. CASE ~NotYetDrawn(v)
      BY <2>1, <2>3, <3>0, <3>4 DEF CommitDraw
    <3>5. QED
      BY <3>3, <3>4
  <2>4. ASSUME NEW d \in Draws, BackfillProof(d) PROVE Final
    <3>1. UNCHANGED entry /\ \A v \in Events : drawResult'[v].seed = drawResult[v].seed
      BY <2>4 DEF BackfillProof, LotteryInv, LotteryTypeOK
    <3>2. QED
      BY <3>1 DEF DecidedEntries, EntriesOf
  <2>5. ASSUME NEW d \in Draws, CheckDrawn(d) \/ RequestVrf(d) \/ ReadLastRequestId(d)
                                 \/ Poll(d) \/ RecordDraw(d) \/ DrawDies(d)
        PROVE  Final
    BY <2>1, <2>5 DEF CheckDrawn, RequestVrf, ReadLastRequestId, Poll, RecordDraw, DrawDies
  <2>6. ASSUME NEW d \in Draws, NEW v \in Events, FindEntries(d, v) PROVE Final
    BY <2>1, <2>6 DEF FindEntries
  <2>7. ASSUME NEW i \in RequestIds, NEW word \in Words, Fulfil(i, word) PROVE Final
    BY <2>1, <2>7 DEF Fulfil, lotteryVars
  <2> HIDE DEF Final
  <2>8. QED
    BY <2>2, <2>3, <2>4, <2>5, <2>6, <2>7 DEF LotteryNext, DrawStep
<1>2. QED
  BY <1>1, LotteryInvariant, PTL DEF LotterySpec, DrawIsFinal
=============================================================================
