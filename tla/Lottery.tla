------------------------------ MODULE Lottery ------------------------------
(***************************************************************************)
(* LotteryService: registration, the draw of an event and its proof on the *)
(* chain, with several draws in flight.  A draw reads the entries, waits   *)
(* for Chainlink, decides, commits the decision in one transaction and     *)
(* then records it on the chain as best it can.                            *)
(***************************************************************************)
EXTENDS VRFConsumer, FiniteSets

CONSTANTS
    Events, Users,
    Pool,          \* Pool[e]: zoneId and groupSize of entry e
    Rank,          \* Rank[w][e]: place of keccak256(w, pool, id of e)
    Draws,         \* calls of draw, each made once
    MaxWait        \* maxWaitMs in units of pollIntervalMs

Entries == Events \X Users

ASSUME RankAssumption ==
    \A w \in Words : Rank[w] \in [Entries -> Nat]

ASSUME MaxWaitAssumption == MaxWait \in Nat \ {0}

VARIABLES
    entry,         \* entry[e]: the status column, "ABSENT" before INSERT
    drawResult,    \* drawResult[v]: the row of event v
    draw,          \* draw[d]: position and local variables of a draw
    drawLog,       \* DrawResult events emitted by BlockTicSBT
    asked          \* history: asked[e]: the last request made when e registered

lotteryVars == <<entry, drawResult, draw, drawLog, asked>>
allVars == <<vrfVars, lotteryVars>>

NoResult == [drawn |-> "no", requestId |-> 0, seed |-> "none", proof |-> "null"]

(* waited: the time since the first poll.                                  *)
IdleDraw == [pc |-> "idle", event |-> "none", entries |-> {},
             requestId |-> 0, waited |-> 0, seed |-> "none"]

LotteryInit ==
    /\ VrfInit
    /\ entry = [e \in Entries |-> "ABSENT"]
    /\ drawResult = [v \in Events |-> NoResult]
    /\ draw = [d \in Draws |-> IdleDraw]
    /\ drawLog = {}
    /\ asked = [e \in Entries |-> 0]

-----------------------------------------------------------------------------
(* register: the unique index on (eventId, userId) admits one row.  There  *)
(* is no check that the event has not been drawn.                          *)
Register(e) ==
    /\ entry[e] = "ABSENT"
    /\ entry' = [entry EXCEPT ![e] = "PENDING"]
    /\ asked' = [asked EXCEPT ![e] = lastRequestId]
    /\ UNCHANGED <<vrfVars, drawResult, draw, drawLog>>

EntriesOf(v) == {e \in Entries : e[1] = v /\ entry[e] # "ABSENT"}

(* draw: the entries are read once, here.                                  *)
FindEntries(d, v) ==
    /\ draw[d].pc = "idle"
    /\ draw' = [draw EXCEPT ![d] =
                  [IdleDraw EXCEPT !.event = v, !.entries = EntriesOf(v),
                      !.pc = IF EntriesOf(v) = {} THEN "failed" ELSE "check"]]
    /\ UNCHANGED <<vrfVars, entry, drawResult, drawLog, asked>>

CheckDrawn(d) ==
    /\ draw[d].pc = "check"
    /\ draw' = [draw EXCEPT ![d].pc =
                  IF drawResult[draw[d].event].drawn = "yes" THEN "failed" ELSE "request"]
    /\ UNCHANGED <<vrfVars, entry, drawResult, drawLog, asked>>

(* requestVrfRandomness: the transaction, ...                              *)
RequestVrf(d) ==
    /\ draw[d].pc = "request"
    /\ RequestRandomWords
    /\ draw' = [draw EXCEPT ![d].pc = "lastId"]
    /\ UNCHANGED <<entry, drawResult, drawLog, asked>>

(* ... the id, read from the contract after the transaction was mined, ... *)
ReadLastRequestId(d) ==
    /\ draw[d].pc = "lastId"
    /\ draw' = [draw EXCEPT ![d].pc = "poll", ![d].requestId = lastRequestId]
    /\ UNCHANGED <<vrfVars, entry, drawResult, drawLog, asked>>

(* ... and one turn of the loop that polls the contract: at the deadline   *)
(* the loop ends; before it, a call of getRequestResult and, without a     *)
(* word, a sleep, which together take pollIntervalMs or longer.            *)
PollUntimed(d) ==
    /\ draw[d].pc = "poll"
    /\ Fulfilled(draw[d].requestId)
    /\ draw' = [draw EXCEPT ![d].pc = "commit",
                            ![d].seed = requests[draw[d].requestId]]
    /\ UNCHANGED <<vrfVars, entry, drawResult, drawLog, asked>>

PollWithoutTest(d) ==
    /\ draw[d].pc = "poll"
    /\ draw' = [draw EXCEPT ![d].pc = "commit",
                            ![d].seed = requests[draw[d].requestId]]
    /\ UNCHANGED <<vrfVars, entry, drawResult, drawLog, asked>>

Poll(d) ==
    /\ draw[d].pc = "poll"
    /\ \/ /\ draw[d].waited < MaxWait /\ Fulfilled(draw[d].requestId)
          /\ draw' = [draw EXCEPT ![d].pc = "commit",
                                  ![d].seed = requests[draw[d].requestId]]
       \/ /\ draw[d].waited < MaxWait /\ ~Fulfilled(draw[d].requestId)
          /\ \E now \in (draw[d].waited + 1)..MaxWait :
                draw' = [draw EXCEPT ![d].waited = now]
       \/ /\ draw[d].waited = MaxWait
          /\ draw' = [draw EXCEPT ![d].pc = "failed"]
    /\ UNCHANGED <<vrfVars, entry, drawResult, drawLog, asked>>

-----------------------------------------------------------------------------
(* groupIntoPools and selectWinners: half of each pool, at least one.      *)
InPool(set, e) == {o \in set : Pool[o] = Pool[e]}

WinnerCount(n) == IF n < 2 THEN 1 ELSE (n + 1) \div 2

Wins(e, set, seed) ==
    Cardinality({o \in InPool(set, e) : Rank[seed][o] < Rank[seed][e]})
        < WinnerCount(Cardinality(InPool(set, e)))

Decided(set, seed) ==
    [e \in Entries |-> IF e \notin set THEN entry[e]
                       ELSE IF Wins(e, set, seed) THEN "WON" ELSE "LOST"]

(* The check inside the transaction; the unique index on eventId backs it. *)
NotYetDrawnUnchecked(v) == TRUE
NotYetDrawn(v) == drawResult[v].drawn = "no"

CommitRereads(d) ==
    /\ draw[d].pc = "commit"
    /\ LET v == draw[d].event IN
       /\ NotYetDrawn(v)
       /\ drawResult' = [drawResult EXCEPT ![v] =
             [drawn |-> "yes", requestId |-> draw[d].requestId,
              seed |-> draw[d].seed, proof |-> "null"]]
       /\ entry' = Decided(EntriesOf(v), draw[d].seed)
    /\ draw' = [draw EXCEPT ![d].pc = "record"]
    /\ UNCHANGED <<vrfVars, drawLog, asked>>

CommitDraw(d) ==
    /\ draw[d].pc = "commit"
    /\ LET v == draw[d].event IN
       \/ /\ NotYetDrawn(v)
          /\ drawResult' = [drawResult EXCEPT ![v] =
                [drawn |-> "yes", requestId |-> draw[d].requestId,
                 seed |-> draw[d].seed, proof |-> "null"]]
          /\ entry' = Decided(draw[d].entries, draw[d].seed)
          /\ draw' = [draw EXCEPT ![d].pc = "record"]
       \/ /\ ~NotYetDrawn(v)
          /\ draw' = [draw EXCEPT ![d].pc = "failed"]
          /\ UNCHANGED <<entry, drawResult>>
    /\ UNCHANGED <<vrfVars, drawLog, asked>>

(* BlockTicSBT.recordDraw emits DrawResult.                                *)
DrawResultEmitted(d) ==
    drawLog' = drawLog \cup {[event |-> draw[d].event, requestId |-> draw[d].requestId,
                              seed |-> draw[d].seed]}

(* recordDrawResult: the transaction may be mined without a receipt        *)
(* reaching the backend, or fail.                                          *)
RecordDraw(d) ==
    /\ draw[d].pc = "record"
    /\ \/ DrawResultEmitted(d) /\ draw' = [draw EXCEPT ![d].pc = "backfill"]
       \/ DrawResultEmitted(d) /\ draw' = [draw EXCEPT ![d].pc = "done"]
       \/ draw' = [draw EXCEPT ![d].pc = "done"] /\ UNCHANGED drawLog
    /\ UNCHANGED <<vrfVars, entry, drawResult, asked>>

BackfillProof(d) ==
    /\ draw[d].pc = "backfill"
    /\ drawResult' = [drawResult EXCEPT ![draw[d].event].proof = "txHash"]
    /\ draw' = [draw EXCEPT ![d].pc = "done"]
    /\ UNCHANGED <<vrfVars, entry, drawLog, asked>>

(* A failed transaction, query or process ends a draw where it stands.     *)
DrawDies(d) ==
    /\ draw[d].pc \notin {"idle", "done", "failed"}
    /\ draw' = [draw EXCEPT ![d].pc = "failed"]
    /\ UNCHANGED <<vrfVars, entry, drawResult, drawLog, asked>>

Fulfil(i, word) ==
    /\ RawFulfillRandomWords(i, word)
    /\ UNCHANGED lotteryVars

DrawStep(d) ==
    \/ CheckDrawn(d) \/ RequestVrf(d) \/ ReadLastRequestId(d) \/ Poll(d)
    \/ CommitDraw(d) \/ RecordDraw(d) \/ BackfillProof(d)

LotteryNext ==
    \/ \E e \in Entries : Register(e)
    \/ \E d \in Draws, v \in Events : FindEntries(d, v)
    \/ \E d \in Draws : DrawStep(d) \/ DrawDies(d)
    \/ \E i \in RequestIds, word \in Words : Fulfil(i, word)

LotterySpec == LotteryInit /\ [][LotteryNext]_allVars

(* The turns of the loop of requestVrfRandomness follow each other: a call *)
(* of a view and a timer.  The coordinator owes nothing.                   *)
FairLotterySpec == LotterySpec /\ \A d \in Draws : WF_allVars(Poll(d))

-----------------------------------------------------------------------------
DrawPcs == {"idle", "check", "request", "lastId", "poll", "commit", "record",
            "backfill", "done", "failed"}

(* Every variable holds values of the kind its column or local has.        *)
LotteryTypeOK ==
    /\ VrfTypeOK
    /\ entry \in [Entries -> {"ABSENT", "PENDING", "WON", "LOST"}]
    /\ drawResult \in [Events -> [drawn : {"no", "yes"}, requestId : 0..MaxRequests,
                                  seed : Words \cup {"none"}, proof : {"null", "txHash"}]]
    /\ draw \in [Draws -> [pc : DrawPcs, event : Events \cup {"none"},
                           entries : SUBSET Entries, requestId : 0..MaxRequests,
                           waited : 0..MaxWait, seed : Words \cup {"none"}]]
    /\ drawLog \subseteq [event : Events, requestId : RequestIds, seed : Words]
    /\ asked \in [Entries -> 0..MaxRequests]

DecidedEntries(v) == {e \in EntriesOf(v) : entry[e] \in {"WON", "LOST"}}

(* Anybody can redo a draw: the winners of an event are exactly the ones   *)
(* that the recorded seed selects among the entries the draw decided, and  *)
(* that seed is the word the contract holds for the recorded request.      *)
(* Draws that lose the race and entries that come too late change nothing. *)
DrawIsReproducible ==
    \A v \in Events :
        IF drawResult[v].drawn = "no" THEN DecidedEntries(v) = {}
        ELSE /\ requests[drawResult[v].requestId] = drawResult[v].seed
             /\ DecidedEntries(v) # {}
             /\ \A e \in DecidedEntries(v) :
                  entry[e] = "WON" <=> Wins(e, DecidedEntries(v), drawResult[v].seed)

(* An event is drawn once: neither a second draw nor a late answer ever    *)
(* changes its seed or turns a winner into a loser.                        *)
DrawIsFinal ==
    [][\A v \in Events : drawResult[v].drawn = "yes" =>
          /\ drawResult'[v].seed = drawResult[v].seed
          /\ DecidedEntries(v) = DecidedEntries(v)'
          /\ \A e \in DecidedEntries(v) : entry'[e] = entry[e]]_allVars

(* The chain tells the same story as the database: every DrawResult event  *)
(* carries the request and the seed of the event's row, and a row with a   *)
(* proof has such an event.                                                *)
ProofMatchesDraw ==
    /\ \A l \in drawLog : /\ drawResult[l.event].drawn = "yes"
                          /\ drawResult[l.event].requestId = l.requestId
                          /\ drawResult[l.event].seed = l.seed
    /\ \A v \in Events : drawResult[v].proof = "txHash" => \E l \in drawLog : l.event = v

(* Nobody enters a draw knowing its word: every entry that a draw decided  *)
(* was registered before the request was made whose word decided it,       *)
(* although registration stays open, draws of one event overlap and the    *)
(* id of the request is read in a call of its own, so that it may be that  *)
(* of another draw's request.                                              *)
EntriesPrecedeTheirWord ==
    \A v \in Events : drawResult[v].drawn = "yes" =>
        \A e \in DecidedEntries(v) : asked[e] < drawResult[v].requestId

(* A draw that waits for a random word does not wait for ever: the loop of *)
(* polls comes to an end even when Chainlink never delivers the word.      *)
PollEnds == \A d \in Draws : draw[d].pc = "poll" ~> draw[d].pc # "poll"
=============================================================================
