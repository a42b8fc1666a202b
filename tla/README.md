# BlockTic backend: TLA+ models, checks and proofs

BlockTic sells event tickets by lottery: users register for an event, a draw
decided by a Chainlink VRF word selects winners, winners get seats, pay through
ECPay, receive a soulbound token on Polygon and enter through a gate that scans
a short-lived QR code. This directory models the parts of the backend in which
requests, external services and failures interleave. Paths below are relative
to the root of the repository.

## 1. Inventory

| Component | State | Operations | What makes it correct |
|---|---|---|---|
| Ticketing (`src/ticketing`) | `tickets` table; ECPay's orders and the SBT balances outside | preauthorize, capturePayment, mintTicket, refundTicket, handleEcpayCallback | a row never claims a payment, refund or token that was not acknowledged; each request moves a ticket along its life |
| Gate (`src/gate-verification`) | `gate_logs`, Redis nonce keys, the status column of `tickets` | generateDynamicQr, verifyEntry, fallbackVerify | one entry per ticket; a QR code is accepted once; a spent code settles |
| Seat allocation (`src/seat-allocation`) | `seats`, row locks | allocateSeats, releaseSeat, findConsecutiveSeats | a seat is given once; the group is adjacent and the first one |
| Lottery (`src/lottery`) | `lottery_entries`, `draw_results` | register, draw | an event is drawn once, nobody enters knowing the word, and anybody can redo the draw from the recorded seed |
| VRF consumer (`contracts/BlockTicVRF.sol`) | requests, lastRequestId | requestRandomWords, rawFulfillRandomWords | a request is fulfilled once |
| SBT contract (`contracts/BlockTicSBT.sol`) | balances, DrawResult events | mint, burn, recordDraw | burn reverts without a balance |
| Blockchain service (`src/blockchain`) | none of its own | sendContractTx and its users, requestVrfRandomness | waits end; an answer belongs to its request |
| Identity (`src/identity`) | `persons`, CompreFace subjects | submitKyc, getKycStatus, deleteUserData | one person per document and per face, also after failures; an erasure leaves nothing |
| Authentication (`src/auth`) | OTP map in memory, `users` | sendOtp, verifyOtp, register | one token per password, bounded guesses, one account per phone, a profile that stays |
| Audit (`src/audit`) | `audit_logs` | logAction, hourly cleanup | what is recorded as deleted is gone, recorded once, and retried until then |
| Events, notifications, shell and guards | tables without cross-component guards | inserts and queries | |

Interaction: all services share one PostgreSQL database and one Node process
per instance; handlers interleave at every `await`. Ticketing calls ECPay, the
identity service and the chain; the gate reads the rows ticketing writes and
writes their status; refundTicket calls releaseSeat (never in practice, since
no code assigns `seatId`); the lottery calls the chain and identity; submitKyc
writes `users.personId`, which nothing reads; the cleanup reads the gate's logs.

What is hard here: handlers keep an entity in memory over awaits that last
seconds to minutes and save all of it; external services may act and not
answer; answers of 200 may carry a refusal; several draws share one contract
register; locks cover one of the two writers of `seats`. PROJECT.json lists the
hazards one by one, at their lines.

## 2. Modules

```
TicketLifecycle            abstract: the life of a ticket, by its status
TicketStore                tickets table + balances + TypeORM's save()
 |-- Ticketing             TicketingService
 |    `-- TicketingObserved  with an observer of overlaps  MCTicketing
 `-- Gate                  GateVerificationService MCGate
BoxOffice                  TicketingObserved and Gate on one table  MCBoxOffice
SeatPlan                   what a group of seats is
 `-- SeatAllocation        allocate and release
      `-- SeatSearch       findConsecutiveSeats    MCSeatAllocation
VRFConsumer                the contract
 `-- Lottery               LotteryService          MCLottery
Identity                   IdentityService         MCIdentity
Accounts                   AuthService, accounts and the lookups by userId  MCAccounts
Audit                      the hourly cleanup      MCAudit
GateProofs, SeatProofs, LotteryProofs, IdentityProofs, AccountsProofs,
AuditProofs                TLAPS proofs, each about the module it is named after
TicketingProofs            about Ticketing and TicketingObserved
BoxOfficeProofs            about BoxOffice, from the two services' lemmas
```

**TicketStore.** `tickets[t]` keeps the columns a guard reads: status,
`tradeNo` (ecpayTradeNo) and `sbt` (sbtTokenId, aaWalletAddress and txHash,
which are assigned together). `Repository.save(entity)` is what TypeORM does: a
SELECT by id, then an UPDATE of the columns in which the entity differs
(`ChangedColumns`, `UpdateColumns`). It is external code, modelled from how the
services use it. `balance[i]` is `balanceOf` of a wallet for a token id: `TokenOf[t]`
stands for the holder's wallet and deriveTokenId of t together. A person's wallet
is a function of the person (createAAWallet), so mint, burn and balanceOf name
the same one. The id is a hash modulo 10^9, so two tickets of one holder may have
the same one; `TokenOf` is a parameter, and nothing is assumed of it.

**Ticketing.** A request is a record with its position (`pc`), the ticket and
the entity it loaded. `Start` is findOne and the status check; then one step per
await: `EcpayDoAction`, `GetKycStatus`, `MintTicketSbt`, `BurnTicketSbt`,
`SaveSelect`, `SaveUpdate`. ECPay carries an action out or not, and independently
answers 200 or not; a transaction is mined and reported, mined and not
reported, or never mined. `RequestDies` ends a request at any await. `trade`
is ECPay's own record of the order; `captureOk`, `voidOk` and `mintOk` are
history: what has been acknowledged.

**TicketingObserved** adds an observer: `overlapped`, the tickets on which two
requests have been at work at once, and `settled[t]`, the status of t until
then. What the handlers promise when they do not overlap is so stated inside
the behaviours in which they may: `settled` implements TicketLifecycle, and
MintedRowHasToken speaks of the tickets that are not overlapped.

**Gate.** A call is a record with its position and locals; each await is a step:
`SetNonce`, `ReadTicket`, `CheckOnChainOwnership` (true when the chain cannot be
asked), `CompareFace`, `FindMinted`, `FindPaid`, `MarkUsed` (the conditional
UPDATE), `SaveLog`. The age check of verifyEntry is in `VerifyEntry`: it passes
while `now < iat + ttl` (jsonwebtoken) and `now - iat <= ttl`. Time passes in
`Tick`. `SetNonceResent` is a SET that Redis carried out and whose answer was
lost: ioredis sends it again, is told that the key exists, and the scan is
refused. A person is who `ticket.userId` names; Gate takes it to be a Person
id, as the comment in `src/auth/jwt.strategy.ts` says. It is a User id: that is
the subject of Accounts. `FoundById` are the persons whom a fallback check finds
by their government ID. In the program as it stands that is nobody, since the
hash of the ID number (gate-verification.service.ts:197) is compared with a hash
of the document's image (identity.service.ts:113, 256), and a ticket's `userId` is
not the person's id. The passing runs and the proofs do not rely on these two
defects, so they let a person be found; box_double_entry, whose counterexample has
to be one of the program's own, has `FoundById` empty.

**BoxOffice.** Both services on one table. `overwritten` is history: tickets
whose USED a save has replaced. The observer of TicketingObserved watches the gate
as well: an entry while a request is at work on the ticket (`EnteredAtWork`) is an
overlap too.

**SeatPlan, SeatSearch, SeatAllocation.** SeatPlan defines the first group of
adjacent seats without a loop; SeatSearch is the loop (`Runs(seats, size)[i]` is the
local `run` after i iterations) and is compared with it. A zone has finitely many
seats (ZoneAssumption).
SeatAllocation has a transaction take all available rows it can lock
(`SelectRows`) and commit, or count and refuse (`CountAvailable`): "locked" if the
zone has available seats and the transaction could lock none, "none" otherwise.
It keeps its locks until then. The comments (lines 33-36, 46-48) and
`docs/api-endpoints.md` line 244 say FOR UPDATE SKIP LOCKED. The query asks for
`pessimistic_write_or_fail` (line 56) and for `skip_locked` (line 57), and what
TypeORM makes of both is not in this repository, so the model allows both outcomes:
the rows that others lock are left out, or the statement fails. The properties
hold either way. `releaseSeat` takes no
lock until its UPDATE. `heldBy` is history: which winners were given the seat; a
release takes it back from those who had it when the release read it.
`contended` is history: the seats that two releases were at work on at once.

**VRFConsumer, Lottery.** A draw reads the entries, checks, sends its request,
reads `lastRequestId`, polls, commits and records. `Poll` is one turn of the loop of
requestVrfRandomness, with its deadline: `waited` is the time since the first
turn in poll intervals, a turn without a word takes one interval or more, as the
call and the sleep do, and at `MaxWait` (24 in the code: 120 s of 5 s) the loop
gives up. `Rank[w][e]` stands for the
order of keccak256(seed, pool, entry). A request's word is kept in one variable
with its `fulfilled` flag, hence WordsAssumption: "none" and "pending" are no
words. The transaction of the draw is one step:
the unique index on `draw_results.eventId` refuses the second of two. `asked[e]` is
history: the last request made when e registered. Left out: the wallets in the
DrawResult event (with the zero address for winners without KYC), its 32-bit
event number and the copy of the proof hash in each entry.

**Identity.** A submission of submitKyc is a record with its position, its inputs
and the person entity in memory; each layer and each statement is a step. The
rows of `persons` are as last committed; `written` is what the submission's own
transaction has put into its row, invisible to others, who wait for the row
(`RowFree`) or for the key of the unique index on `personIdHash` (`KeyFree`). A
save is again a SELECT and an UPDATE of the differing columns, or an INSERT if
the SELECT found no row, and an UPDATE of no row if the person was erased in
between. `Rollback` stands for every exception (the catch saves REJECTED in the
same transaction and throws again, so nothing of it stays) and for a lost
process; `faces` (CompreFace) and `kycTokens` (the contract) keep what they
have. A service that acted without answering is its step followed by a
Rollback. The liveness and 1:1 verdicts are free choices. Recognition is exact,
except that the code takes every 400 for the answer of an empty collection (line
382): with `BadRequests` CompreFace may give that answer to a search for a face it
has, and the search counts as "no". The violated runs do without it. A
Document is an image, as it is the image's bytes that are hashed. The
statements of deleteUserData are steps as well; an error that CompreFace
answers is only logged. History: `missed` (faces that a search did not find
although CompreFace had them, or another submission was between its search and its
registration of them), `erasing`, `approvedAs`, `contended` (persons on whom two
calls were at work at once) and `strays`: persons whose face a submission had
registered when it failed (`HasAdded`) while the committed row did not name it,
and persons whose face CompreFace refused to delete.

**Accounts.** verifyOtp runs without an await up to the query for the user, so
everything it does with the Map of passwords is one step: `Refuse`, `WrongCode`
or `RightCode`. Then `FindUser` and `InsertUser`, where the unique index on phone
decides between two first logins. `Register` is the query and its check,
followed by the SELECT and UPDATE of the save. `Restart` loses the Map and the
calls under way; tokens stay good. `LinkPerson` is the end of an approved
submitKyc, `ErasePerson` that of deleteUserData, and `GetKycStatus` and
`CompareFace` are the two lookups by a ticket's `userId`. User and Person ids
are disjoint, and NULL is none of them (AccountsAssumption): they are uuids
generated in two tables.

**Audit.** A run of cleanupEventData reads the events that are due, then goes
through them: the DELETE succeeds (or there was nothing), fails, or times out
with or without having been carried out; then logAction inserts the record or
fails. A gate log is recent or older than the cutoff (`DayPasses`). Runs may
overlap (`Jobs` of them at once), die, and go on being started for ever.

## 3. Runs

| Run | Bounds | Shows |
|---|---|---|
| gate | 2 tickets of one person, 1 code, 2 calls, QrTtl 1, Redis late by up to 1, clock to 2, with fairness | GateTypeOK; **SingleAdmission**; **NonceNotReplayed**: a code passes the replay check once, also when checked in its last second; **LostRaceHasWinner**; **BurntNonceSettles** |
| box_office | 1 ticket anywhere in its life, 2 requests, 2 calls, 1 code, clock stopped | TicketingTypeOK, **StatusIsEarned**, **MintedHolderHasToken**, **MintedRowHasToken**, **AdmittedWasCaptured**, **SingleAdmissionUnlessOverwritten**, **OverwriteNeedsOverlap**, **BoxOfficeFollowsLifecycle** (refinement of TicketLifecycle until requests and entries overlap) |
| box_double_entry | 1 ticket from its sale on, 2 requests, 2 calls, 2 codes, nobody found by ID | violation of NoDoubleEntry |
| ticketing_unpaid | 1 ticket, 2 requests | violation of PaidWasCaptured |
| seat_allocation | 2 rows of 3 and 2 seats, any of them allocated before, 3 allocations of 1 or 2, 2 releases; the loop for sizes 1 to 6 | SeatTypeOK, **SeatGivenOnceUnlessContended**, **ChosenStaysAvailable**, **FindsFirstGroup** (the loop against its definition) |
| lottery_draw | 1 event, 3 users in 2 pools, 2 draws, 2 words that order a pool in opposite ways, MaxWait 2, with fairness | LotteryTypeOK, **DrawIsReproducible**, **EntriesPrecedeTheirWord**, **DrawIsFinal**, **ProofMatchesDraw**, **PollEnds** |
| identity | 3 submissions, 2 persons, 2 documents, 2 faces, 1 erasure, 400 for any reason | IdentityTypeOK, **OneDocumentOnePerson**, **ApprovedIsEnrolled**, **OneAccountPerFaceUnlessMissed**, **ErasureLeavesNothing** |
| identity_face | 2 submissions of 2 documents with 1 face, no erasure, 400 for an empty collection only | violation of OneAccountPerFace |
| identity_erasure | 1 submission, 1 erasure | violation of ErasureIsComplete |
| accounts | 1 phone, 3 passwords, 3 right codes, any number of wrong ones, 2 registrations, 2 names, 1 person | AccountsTypeOK, **OtpUsedOnce**, **OtpGuessesBounded**, **NewUserOnce**, **ProfileKeptUnlessOverlapped** |
| accounts_kyc | 1 phone, 1 password, 1 person | violation of KycFoundThroughUserId |
| audit | 2 events, 2 runs at once, with fairness | AuditTypeOK, **RecordedIsGone**, **RecordedOnceUnlessOverlapped**, **EventuallyCleaned** |

Why the bounds are enough. Tickets do not influence one another except through
a fallback check that chooses among a person's tickets, hence two tickets of one
person for the gate and one for ticketing, and through a shared token id, which
takes six requests to matter and is left to the proofs. box_office starts
(`MCBoxSpec`) from a ticket as requests that came one after the other leave it: not
sold, sold, paid for by the customer, captured or minted. These are states of
BoxSpec, which would need up to three requests more to reach them; from there, two
requests are an overlap at any point of the ticket's life, with two entries, and
one code shared by two scans. Codes expire in the gate run. With six or more
overlapping requests the columns of two saves can mix, so MintedRowHasToken excepts
overlapped tickets; section 5 has these properties for any number of requests.
In seat_allocation the numbers of the second row go on from the first,
so that only the row separates them. With QrTtl = 1 a scan can be checked in the last
second of its code and reach Redis when the first scan's key would have expired, had it been
kept for one lifetime only; NoQrReplay covers every other lifetime. With MaxWait = 2
a draw can poll in vain, sleep, and find the word at its second poll or give up, and a
turn may take longer than its interval. Three
submissions are a first one that leaves a person behind and two that race, as
new persons or as repeated submissions of that one. Phones do not influence one
another; MAX_OTP_ATTEMPTS has its value of 5, and `MaxSent` = 3 passwords allow
two logins that race and a third one later, with a restart anywhere. Two
registrations and a link are what it takes to lose a column. Two runs of the
cleanup can overlap on either event; a run lasts no longer than its list, and
AuditProofs has any number.

In most runs nothing has to go on for ever: requests, calls and draws are made
once each, so states without successor are the ends of finite histories and
deadlock is not checked. accounts and audit check it.

Symmetry is used for requests, calls, allocations, releases, submissions,
persons, documents, faces, verifications, registrations and names, which are only
compared for equality, and not in the runs with liveness.

**Fairness.** `FairGateSpec` asks weak fairness of each call's next step: the
event loop resumes a call whose await has settled, and the awaits settle, by
answer or by error, since the face service is called with a timeout and the
RPC, PostgreSQL and Redis clients reject on a lost connection. `CallDies` may happen instead.
`FairLotterySpec` asks it only of the turns of the polling loop: each is a call of a
view, which the RPC client answers or rejects, and a timer. That the loop ends is
not assumed: it follows from its deadline, and fails without it (a mutant). Nothing
is asked of ECPay, Chainlink, users or the clock. `AuditSpec` asks
weak fairness of the start of a run (the cron fires every hour) and of the end
of its loop, and strong fairness of a deletion and of the record's INSERT: what
is tried again every hour succeeds at last, that is, CompreFace and PostgreSQL
are not down, and the process does not die, at every single attempt.

## 4. What the violated runs show

* **box_double_entry**: the gate's comment says the conditional update prevents
  double entry. It does among gate calls (GateAdmitsOnce). But a ticketing
  request that loaded the ticket before the entry and saves it after finds the
  status different and writes it back; the scan of a second code enters again. Every
  save of TicketingService can do this. It takes that overlap: OverwriteNeedsOverlap
  holds, so requests that end before the entry, or start after it, do no harm.
* **ticketing_unpaid**: ecpayDoAction looks at the HTTP status and logs the body,
  where ECPay reports a refusal. The ticket becomes PAID, and `paidAt`, which the API
  describes as the capture's timestamp, is set for an order that was not captured.
  To mint it as well, getKycStatus has to find the holder, which accounts_kyc shows
  it does not.
* **identity_face**: the comment on layer 4 says that it prevents one person from
  having several accounts. The search for a face and its registration are two calls
  to CompreFace; two submissions of one face, with two documents, both search before
  either registers. OneAccountPerFaceUnlessMissed shows what other ways there are: a
  search that CompreFace answers with 400, and an erasure.
* **identity_erasure**: the API promises the removal of all personal data, face
  embeddings included. In the trace CompreFace refuses the deletion, which is only
  logged, and the row is removed. ErasureLeavesNothing shows what other ways there
  are: a submission that was at work on the person inserts the row again, or
  registers a face after the deletion; a submission that failed after registering
  the face leaves one that no row names.
* **accounts_kyc**: the comment at the link in submitKyc says that ticketing and
  the gate find the KYC data through userId. The token's subject is User.id,
  the ticket keeps it, and both lookups take it for a Person.id. Nobody reads
  `User.personId`. A ticket of a user with an approved KYC cannot be minted, and
  its holder scores 0 at a gate in STRONG mode.

Where an interleaving breaks what one would expect, and we found no comment, test or
document that promises otherwise, the property names the exception, and TLC shows
that there is no other:

* SeatGivenOnceUnlessContended: releaseSeat checks a status read before, without
  a lock or a condition in its UPDATE; two releases around an allocation free a
  seat that has been given again.
* ProfileKeptUnlessOverlapped: register saves the user it loaded, so that an
  approval or a second registration in between is written back.
* RecordedOnceUnlessOverlapped: two runs of the cleanup record an event twice.

Met while modelling and not given a run: the request id of a draw is not taken from
the receipt but read back from `lastRequestId` (blockchain.service.ts:224), while
the comment at line 204 speaks of the transaction's own, so that of two draws at
once one may be decided by the other's request, or both by one word (Lottery has it
so, and EntriesPrecedeTheirWord and DrawIsReproducible hold even then); allocateSeats
means to tell locked seats from no seats (the comment at line 64), but a seat released
between its two queries makes a full zone "temporarily locked", and a zone with some
of its seats locked has "no consecutive seats" although a retry may find them; a
refused fallback check logs the ticket id `unknown` into a uuid column and ends with a 500, unrecorded (Gate
has it so), and it compares a hash of the ID number with `personIdHash`, which
is a hash of the document's image; verifyEntry logs the ticket id as the event
id when it knows no ticket; after a rollback of submitKyc the same person's next
attempt is a duplicate of the face left behind, and a person who submits again
after an approval is rejected for their own face; an erasure leaves
`User.personId` and the KYC token; sendOtp starts the count of attempts anew, so
the bound is one per password and not per phone; the cleanup deletes a subject
named after the event, while faces are registered under person ids, and takes
the 404 for success; it takes an event with any log older than a day, while its
comment speaks of events that ended a day ago, so an event of several days is
recorded as cleaned while its gates are open; and the comment of deriveTokenId
calls the id unique and made of 6 bytes of a hash, while it is made of 4, modulo
10^9, and never checked: of two minted tickets of one holder with one id, a refund
of the first that is made twice burns both tokens, and the second is refused at
the gate.

## 5. Proofs

Every safety invariant and action property that a passing run checks is also a
theorem, and so are the two refinements, of TicketLifecycle by TicketingObserved
and by BoxOffice. All of them hold for every number of tickets, requests, codes, calls, seats, allocations,
releases, events, draws, persons, submissions, erasures, phones, verifications,
registrations and runs. The named ASSUMEs of the modules are the only
assumptions; the bounds of section 3 (`MaxRequests`, `MaxSent`, ...) are arbitrary
in the proofs. Each argument is an inductive invariant and a lemma that every
step preserves it; those of Identity and Accounts, the largest, were checked with
TLC on the instances of section 3 before they were proved.

* **GateTypeCorrect**: types, with `TargetKnown` (a call past its lookup has a
  ticket), without which a step could index the table with "unknown".
* **GateAdmitsOnce**: SingleAdmission is strengthened by `NoResultYet` (a call has
  no result before its UPDATE), so that only MarkUsed creates an admission; if
  the row is PAID or MINTED nobody has been admitted on it.
* **NoQrReplay** uses `GateAssumption` (RedisDelay <= QrTtl). The invariant says that
  a spent nonce stays in Redis until iat + 2 ttl at least (`BurntNonceKept`),
  that a scan waiting for Redis checked a code younger than one ttl at most
  RedisDelay ago (`WaitingScanIsRecent`), and that codes are signed in the past;
  so a scan that finds the key gone would have to be later than
  iat + ttl + RedisDelay. With a slower Redis the property fails: the bound is
  where the factor two in `QR_TTL_SECONDS * 2` is spent. A resent SET only adds
  keys and refuses its scan.
* **LostRacesHaveWinners** (LostRaceHasWinner, an action property): `ValidOrEntered` says that
  a call past its status check has a ticket that is still PAID or MINTED or that
  somebody has entered on; a conditional UPDATE of no row leaves the second.
* **TicketingTypeCorrect**: types, with `AtItsAwait` (a request stands at an await of
  its own handler).
* **RowsAreEarned**: StatusIsEarned is not inductive, as a save writes an entity
  loaded long ago. `EntityEarned` says the same of every entity in memory, and
  what has been answered by the time a handler assigns. `UpdatedIsEarned` is the
  heart: any mix of columns of two earned rows is earned.
* **MintedHoldersHaveTokens** adds `MintedTokenKept`: a confirmed token leaves
  only through a refund that ECPay answered, of its ticket or of one with the same
  id. It holds for every `TokenOf`. **OwnTokensAreKept** proves `TokenIsOwn` (a token
  goes through its own ticket's refund only) under the hypothesis that the ids of
  different tickets differ, which deriveTokenId makes likely and does not ensure:
  a collision is thus the only way to lose a token otherwise.
* **MintedRowsHaveTokens** and **TicketingImplementsLifecycle** are about
  ObservedSpec. `ObserverFollows` ties the observer to the table (two requests
  at work on a ticket have been noticed; `settled` is the row's status as long
  as they have not), and `IsCurrent` says that a request alone on its ticket
  holds the row as it is, so its save writes one assignment of its handler and
  nothing old. Then each save is one step of TicketLifecycle.
* **BoxOfficeImplementsLifecycle** extends this to the composition: the lemmas about a
  step of ticketing hold whatever else the observer notices (`ObservedStep`,
  `TicketingStepAdvances`), and an entry at which no request is at work on the
  ticket is a step of its life and leaves no entity stale (`GateStepAdvances`).
  **OverwritesNeedOverlaps** follows: USED is final in TicketLifecycle, so a save
  that takes it away did so to a ticket the observer had given up.
* **OnlyCapturedGetIn** and **DoubleEntryNeedsOverwrite** are about the composition.
  A step of BoxOffice is a step of one service that leaves the other's locals
  alone, so the invariants of both carry over lemma by lemma (`BoxInv`): the gate
  writes only USED, which claims no more than PAID did, and a save of ticketing
  that takes USED away is what `overwritten` notes. AdmittedWasCaptured needs
  StatusIsEarned of the whole table, stale entities included.
* **EntriesKeepRowsEarned** and **NoQrReplayAtBoxOffice** say that what each service was
  proved to keep by itself (TicketingTypeOK, StatusIsEarned, MintedHolderHasToken and
  MintedRowHasToken; NonceNotReplayed) survives the other. LostRaceHasWinner does not: in the composition a refund can win.
* **SeatTypeCorrect, ChosenSeatsStay, SeatsAreGivenOnce**: the
  invariant adds `ReleaseIsCurrent` (while one release is at work on a seat, it stays
  allocated to those who had it when it was read) and `OverlapIsSeen`. That a
  first group exists if any does is `FirstGroupFound`: least elements in the
  order of row and number, from the well-foundedness of <. Uses SeatsAssumption
  and AllocationAssumption.
* **SearchIsFirstGroup** and **SearchFindsFirstGroup**: the loop of findConsecutiveSeats
  computes FirstGroup, for every set of seats and every size; this is what ties the
  theorems above, which rest on the definition, to the code. `OrderedIsInOrder` says
  that the query's result lists each seat once, in order. The loop invariant is
  `RunBegins`: after i iterations the run is a stretch of adjacent seats that, unless
  it has the size, ends at the i-th, and no group begins before it. Such an invariant
  needs an induction over i; instead of the induction rule, which these provers
  cannot instantiate, `LoopKeeps` takes the least iteration that breaks it, from the
  well-foundedness of <, and refutes that one. That the run returned is the first
  group uses that the positions of a group in the list are consecutive
  (`GroupStandsTogether`). Uses ZoneAssumption as well.
* **LotteryTypeCorrect, DrawsAreReproducible, ProofsMatchDraws, DrawsAreFinal**: `DrawLocals`
  says what a draw knows at each await (the entries it read are rows of its event,
  its word is the contract's answer to the request it names, and from its commit
  on the event's row tells of it), `RowsHoldWords` the same of the rows, and
  `NoAnswerAhead` that the contract has answered no request that was not made. Uses RankAssumption,
  WordsAssumption, MaxRequestsAssumption and MaxWaitAssumption.
* **NobodyEntersKnowing** (EntriesPrecedeTheirWord): `EntersBefore` says
  of a draw between its request and its commit that every entry it read was
  registered before the request it is going to use was made. A draw reads its
  entries before it sends its own request, and `lastRequestId` never falls behind that, so that the
  request it picks up is its own or a later one.
* **IdentityTypeCorrect**: types, with `LocalsKnown`, `InsertIsWhole` (an INSERT carries
  every column) and `ErasureKnown`.
* **OneDocumentEach**: OneDocumentOnePerson speaks of committed rows only. `KeysApart` and
  `KeyIsOwn` extend it to the keys that open transactions hold in the unique
  index.
* **ApprovedStayEnrolled**: `EnrolInv` says of every entity in memory and every
  uncommitted row that is APPROVED what ApprovedIsEnrolled says of a row.
* **SharedFacesWereMissed** (OneAccountPerFaceUnlessMissed): `SearchInv`; a submission
  about to register its face either is alone with it or its face is in `missed`.
* **ErasuresLeaveNothing**: `AloneInv` (one call at most is at work on a person who is
  not contended), `CurrentInv` (that call sees the row it loaded), `FaceIsTold` (a
  face in CompreFace is told of by the row or by the entity about to be saved,
  unless it is a stray) and `ErasedInv`. The proofs about Identity sort its steps
  by their effect first (`Quiet`, `Enrols`, `Writes`, `Aborts`, `Commits`, `Begins` and
  the steps of an erasure) and then reason about the kinds.
* **OnePasswordOneToken**: OtpUsedOnce counts answers only, so it says nothing of
  a verification that still waits for the database. `PasswordsSpent` keeps the
  whole account: passwords answered, plus verifications that wait (a
  cardinality, hence IsFiniteSet(Verifications)), plus the one in the Map, are no
  more than were sent. Every step moves a password from one heading to the next
  or drops it.
* **GuessesAreBounded**: `GuessesCounted` says that a record in the Map has counted
  every code compared with its password.
* **AccountsTypeCorrect** and **OneNewUser**: `NewUserHasAccount` says that who was told
  to register has an account, so a second INSERT for the phone finds the unique
  index taken.
* **ProfilesAreKept** (ProfileKeptUnlessOverlapped, an action property): `ProfileInv`; a
  registration alone on its account still sees the row it loaded, so that its
  save writes the columns it was called for.
* **RecordsAreTrue**: RecordedIsGone with the same of the event a run is about to
  record (`LoggedIsGone`).
* **RecordsAreSingle**: until two runs have had an event before them, one run at
  most has it, and then it has no record (`OneRunAtATime`).

* **AuditTypeCorrect** bounds the records of an event by the number of runs that
  can be under way: records made, plus runs that still have the event before
  them, are no more than `Jobs` (`RecordsBounded`, hence AuditAssumption).

Only model-checked: BurntNonceSettles, PollEnds and EventuallyCleaned, which are
liveness under fairness and beyond this prover. The safety half of the first is
proved: **SpentCodesGoForward** says that a scan which has spent its code ends with a
gate log, an error or the loss of the call and in no other way, and that every
step it takes makes `AwaitsLeft` smaller; what is left to fairness is that the steps
are taken.

## 6. Not modelled

* Events: inserts, updates and queries of one aggregate that no guard elsewhere
  reads. What concurrent updates leave of its zones is decided by how TypeORM
  cascades a OneToMany, which is not in this repository.
* Notifications: inserts, a read flag and queries; no other component uses them.
* Shell, guards, configuration, migration and the deployment scripts: no state
  that requests share.
* Queries (getSeatMap, getEntryStats, getResults, getProof, findByUser, getLogs,
  getEventSummary) change nothing.
* ECPay's form fields and CheckMacValue are data: a callback with a wrong one is
  no step. A token's expiry and the mock code of sendOtp are left out.

## 7. Plan

Done in this order: TicketStore, Gate, Ticketing, BoxOffice, seats, lottery,
identity; proofs of Gate and Ticketing; the observers of overlaps, what an
erasure promises, accounts, the cleanup, resent SETs; proofs of Accounts, Audit,
SeatAllocation, Lottery, Identity, the refinements and BoxOffice; the proof of the
seat search; shared token ids; the composition's refinement of TicketLifecycle.

What could follow:

1. The safety half of EventuallyCleaned, as SpentCodesGoForward is that of
   BurntNonceSettles: failed runs may take an event up any number of times, so it
   needs an order on what a fair run has left to do.
2. Conditional saves in TicketingService, as the gate has them, as a variant of
   SaveUpdate: NoDoubleEntry should then hold, and its proof is that of
   SingleAdmissionUnlessOverwritten without the exception.
3. The id of a draw's request taken from the receipt, as a variant of
   ReadLastRequestId: no two draws would then be decided by one word.
