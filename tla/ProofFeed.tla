------------------------------ MODULE ProofFeed ------------------------------
(***************************************************************************)
(* The served payload of the public feed (services/the_proof.py): a        *)
(* builder thread that reads the chain and publishes, a light thread that  *)
(* only reads the status and replaces the chain section, and requests,     *)
(* answered from the last payload by the clock of the moment.              *)
(* Times are in units of the staleness threshold's fraction; the chain may *)
(* halt, and the feed's clock may be set.                                  *)
(***************************************************************************)
EXTENDS Integers, FiniteSetsExt

CONSTANTS None, StaleBlock, MaxWall, FeedProfiles

VARIABLES wall,       \* true time
          skew,       \* the feed's clock minus true time
          headBlock,  \* the newest block: [h, at]
          cache,      \* [doc, payload, chain, failing]
          builder,    \* [pc, now, facts, chain]
          light,      \* [pc, chain]
          newest,     \* the latest reading published: [at, by]
          story,      \* what the attempts did: [facts, since], the last facts built and the first failure after them
          feedLeft

feedvars == <<wall, skew, headBlock, cache, builder, light, newest, story, feedLeft>>

FeedNow == wall + skew
HasF(f) == feedLeft[f] > 0
TakeF(f) == feedLeft' = [feedLeft EXCEPT ![f] = @ - 1]
Resting == [pc |-> "rest", now |-> 0, facts |-> None, chain |-> None]
LightRest == [pc |-> "rest", chain |-> None]

-----------------------------------------------------------------------------
(* The chain and the clocks                                                *)

Tick == wall < MaxWall /\ wall' = wall + 1 /\ UNCHANGED <<skew, headBlock, cache, builder, light, newest, story, feedLeft>>

ClockSet ==
  /\ HasF("clock") /\ TakeF("clock")
  /\ \E d \in feedLeft.steps : skew' = skew + d
  /\ UNCHANGED <<wall, headBlock, cache, builder, light, newest, story>>

Block ==
  /\ HasF("blocks") /\ TakeF("blocks")
  /\ headBlock' = [h |-> headBlock.h + 1, at |-> wall]
  /\ UNCHANGED <<wall, skew, cache, builder, light, newest, story>>

-----------------------------------------------------------------------------
(* The chain section and its verdicts                                      *)

\* Mutation: a clock far behind the chain's reads as a fresh block.
ChainBlockFault(h, at, readAt) ==
  LET age == IF at = None THEN None ELSE readAt - at IN
  [height |-> h, epoch |-> at, age |-> age, stale |-> IF at = None THEN None ELSE readAt - at >= StaleBlock,
   at |-> readAt, why |-> None]
\* The section of one status read: age and verdict null without a block time, or with a clock too far behind it.
ChainBlock(h, at, readAt) ==
  LET dated == at # None /\ (at # None => readAt - at + StaleBlock > 0) IN
  [height |-> h, epoch |-> at, age |-> IF dated THEN readAt - at ELSE None,
   stale |-> IF dated THEN readAt - at >= StaleBlock ELSE None, at |-> readAt, why |-> None]

\* A snapshot's facts kept, its verdicts about now withdrawn, the first reason kept.
KeptPayload(chain, reason) ==
  [chain EXCEPT !.age = None, !.stale = None, !.why = IF chain.why # None THEN chain.why ELSE reason]

\* Mutation: the bound is looked at on one side only.
WithdrawalReasonFault(chain) == IF FeedNow - chain.at >= StaleBlock THEN "old" ELSE None
WithdrawalReason(chain) ==
  IF FeedNow - chain.at >= StaleBlock THEN "old"
  ELSE IF FeedNow - chain.at <= -StaleBlock THEN "behind" ELSE None

\* The chain section a request is answered with now.
ServeBody(payload) ==
  LET why == WithdrawalReason(payload.chain) IN
  IF why = None THEN payload.chain ELSE KeptPayload(payload.chain, why)

-----------------------------------------------------------------------------
(* The builder                                                             *)

Builds(b) == builder' = b
OnlyBuilder == UNCHANGED <<wall, skew, headBlock, cache, light, newest, story>>

\* The next build of the loop: bounded in number, or not (None).
BuildBegin ==
  /\ builder.pc = "rest" /\ Builds([Resting EXCEPT !.pc = "listing", !.now = FeedNow])
  /\ feedLeft.builds = None \/ (feedLeft.builds # None => feedLeft.builds > 0)
  /\ feedLeft' = [feedLeft EXCEPT !.builds = IF @ = None THEN None ELSE @ - 1]
  /\ OnlyBuilder

\* Every count comes from the job listing; one that cannot be read builds nothing.
ReadListing ==
  /\ builder.pc = "listing"
  /\ \/ Builds([builder EXCEPT !.pc = "status", !.facts = headBlock.h]) /\ UNCHANGED feedLeft
     \/ HasF("listing") /\ TakeF("listing") /\ Builds([builder EXCEPT !.pc = "failed"])
  /\ OnlyBuilder

\* The status is read partway and dated by the clock of that moment; an unread one leaves its fields null.
ReadStatus ==
  /\ builder.pc = "status"
  /\ \/ Builds([builder EXCEPT !.pc = "built", !.chain = ChainBlock(headBlock.h, headBlock.at, FeedNow)]) /\ UNCHANGED feedLeft
     \/ HasF("status") /\ TakeF("status")
        /\ Builds([builder EXCEPT !.pc = "built", !.chain = ChainBlock(None, None, FeedNow)])
  /\ OnlyBuilder

\* A read after the status that raises.
ReadRest ==
  /\ builder.pc = "built" /\ HasF("raise") /\ TakeF("raise")
  /\ Builds([builder EXCEPT !.pc = "failed"]) /\ OnlyBuilder

\* Mutation: the build's own status reading replaces a later light one.
WithNewestChainFault(chain) == chain
\* The light reading made after the build's status read is kept.
WithNewestChain(chain) ==
  IF cache.chain = None THEN chain ELSE IF cache.chain.at <= chain.at THEN chain ELSE cache.chain

\* The document: the counts of the listing, with the chain section.
BuildProof == [facts |-> builder.facts, chain |-> WithNewestChain(builder.chain)]

Published(by, at) == newest' = IF newest.at = None \/ (newest.at # None => newest.at < at) THEN [at |-> at, by |-> by] ELSE newest

PublishBuilt ==
  /\ builder.pc = "built"
  /\ LET doc == BuildProof IN
     cache' = [cache EXCEPT !.doc = doc, !.failing = None,
                 !.payload = [current |-> TRUE, since |-> None, facts |-> doc.facts, chain |-> doc.chain]]
  /\ Published("build", builder.chain.at)
  /\ story' = [facts |-> builder.facts, since |-> None]
  /\ Builds(Resting) /\ UNCHANGED <<wall, skew, headBlock, light, feedLeft>>

\* Mutation: the failures are dated by the last one.
FailingSinceFault == builder.now
FailingSince == IF cache.failing = None THEN builder.now ELSE cache.failing

\* The section served after a failed refresh: a light reading as late as the kept one, or the kept one withdrawn.
KeptChain ==
  LET chain == cache.doc.chain IN
  IF cache.chain # None /\ (cache.chain # None => cache.chain.at >= chain.at) THEN cache.chain
  ELSE KeptPayload(chain, "failed")

\* The last payload is kept and says so, with the time the failures began.
PublishFailed ==
  /\ builder.pc = "failed"
  /\ cache' = [cache EXCEPT !.failing = FailingSince,
                 !.payload = [current |-> FALSE, since |-> FailingSince,
                              facts |-> IF cache.doc = None THEN None ELSE cache.doc.facts,
                              chain |-> IF cache.doc = None THEN None ELSE KeptChain]]
  /\ story' = [story EXCEPT !.since = IF @ = None THEN builder.now ELSE @]
  /\ Builds(Resting) /\ UNCHANGED <<wall, skew, headBlock, light, newest, feedLeft>>

\* Mutation: an error outside the attempt ends the thread.
LoopErrorFault ==
  /\ builder.pc = "rest" /\ HasF("loop") /\ TakeF("loop")
  /\ Builds([builder EXCEPT !.pc = "dead"]) /\ OnlyBuilder
\* An error outside the attempt, or in the wait: the loop goes on.
LoopError ==
  /\ builder.pc = "rest" /\ HasF("loop") /\ TakeF("loop")
  /\ Builds(Resting) /\ OnlyBuilder

-----------------------------------------------------------------------------
(* The light reader                                                        *)

\* One status read, with or without a block time; an unread one changes nothing.
ReadChain ==
  /\ light.pc = "rest" /\ HasF("lights")
  /\ \/ /\ light' = [pc |-> "read", chain |-> ChainBlock(headBlock.h, headBlock.at, FeedNow)]
        /\ TakeF("lights")
     \/ /\ HasF("undated") /\ feedLeft' = [feedLeft EXCEPT !.undated = @ - 1, !.lights = @ - 1]
        /\ light' = [pc |-> "read", chain |-> ChainBlock(headBlock.h, None, FeedNow)]
  /\ UNCHANGED <<wall, skew, headBlock, cache, builder, newest, story>>

PublishChain ==
  /\ light.pc = "read" /\ light' = LightRest
  /\ LET c == light.chain IN
     cache' = IF cache.doc # None /\ (cache.doc # None => c.at > cache.doc.chain.at)
              THEN [cache EXCEPT !.chain = c, !.doc.chain = c, !.payload.chain = c]
              ELSE [cache EXCEPT !.chain = c]
  /\ Published("light", light.chain.at)
  /\ UNCHANGED <<wall, skew, headBlock, builder, story, feedLeft>>

-----------------------------------------------------------------------------

Init ==
  /\ feedLeft \in FeedProfiles
  /\ wall = 0 /\ skew = 0 /\ headBlock = [h |-> 1, at |-> 0]
  /\ cache = [doc |-> None, chain |-> None, failing |-> None,
              payload |-> [current |-> FALSE, since |-> None, facts |-> None, chain |-> None]]
  /\ builder = Resting /\ light = LightRest /\ newest = [at |-> None, by |-> None]
  /\ story = [facts |-> None, since |-> None]

Next ==
  \/ Tick \/ ClockSet \/ Block
  \/ BuildBegin \/ ReadListing \/ ReadStatus \/ ReadRest \/ PublishBuilt \/ PublishFailed \/ LoopError
  \/ ReadChain \/ PublishChain

Spec == Init /\ [][Next]_feedvars

\* Each thread goes on: the builder's reads answer or raise, and its loop starts the next build.
Fair ==
  /\ WF_feedvars(BuildBegin) /\ WF_feedvars(ReadListing) /\ WF_feedvars(ReadStatus)
  /\ WF_feedvars(PublishBuilt) /\ WF_feedvars(PublishFailed)
FairSpec == Spec /\ Fair

-----------------------------------------------------------------------------
(* Properties                                                              *)

Answer == ServeBody(cache.payload)

\* The sections, threads and counters have their shape; a request is answered before and after the first build.
TypeOK ==
  /\ builder.pc \in {"rest", "listing", "status", "built", "failed"} /\ light.pc \in {"rest", "read"}
  /\ cache.payload.current \in BOOLEAN
  /\ cache.payload.chain # None => /\ Answer.stale \in BOOLEAN \cup {None}
                                   /\ (Answer.stale = None) = (Answer.age = None)
                                   /\ Answer.age # None => (Answer.age # None => Answer.age > -StaleBlock)

\* "New blocks keep arriving" is never answered when the newest block the answer knows is two thresholds away from
\* the clock that answers, whichever thread read it, however long ago, and whether the clock was set since.
MovingIsRecent ==
  (cache.payload.chain # None /\ (cache.payload.chain # None => Answer.stale = FALSE)) =>
    /\ FeedNow - Answer.epoch < 2 * StaleBlock /\ FeedNow - Answer.epoch > -(2 * StaleBlock)
    /\ Answer.why = None

\* Once something was built, the chain section is the latest reading published by either thread, and a failed build
\* withdraws the verdicts of no reading but a build's own; as long as the clock is not set back.
NewestServed ==
  (skew >= 0 /\ cache.payload.chain # None) =>
    /\ newest.at # None /\ cache.payload.chain.at = newest.at
    /\ cache.payload.chain.why # None => newest.by = "build"

\* After failures the counts are those of the last build that succeeded, marked not current and dated by the first
\* failure; a rebuilt payload carries no such mark.
FailureDated ==
  /\ cache.payload.facts = story.facts
  /\ cache.payload.since = story.since
  /\ cache.payload.current = (story.facts # None /\ story.since = None)

Current == cache.payload.current

\* Once the reads answer, the payload is current again and stays so.
CurrentInTheEnd == <>[]Current
==============================================================================
