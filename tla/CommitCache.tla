----------------------------- MODULE CommitCache -----------------------------
(***************************************************************************)
(* The commit listing of the public feed, read by increment                *)
(* (services/the_proof.py): the rows kept from the build before, the first *)
(* place where the chain holds a row they lack found by comparing single   *)
(* rows, short windows read there, then what follows the newest kept key.  *)
(* Rows are added to the chain, anywhere in the order, between any two of  *)
(* those reads.                                                            *)
(***************************************************************************)
EXTENDS Integers, Sequences, FiniteSets, SequencesExt

CONSTANTS None, MaxRow, PageRows, Window, Patches, FullEvery, CommitProfiles

VARIABLES listing,   \* the chain's commits: key -> model
          kept,      \* the feed's cache: [rows, since]
          cb,        \* the build being made
          out,       \* the last list built: None or [rows, start, foreign]
          foreign,   \* the cache holds rows of another chain
          strange,   \* lists built since then without a full read
          commitLeft

commitvars == <<listing, kept, cb, out, foreign, strange, commitLeft>>

NoRows == [k \in {} |-> None]
Keys(rows) == SetToSortSeq(DOMAIN rows, <)
Merged(a, b) == [k \in DOMAIN a \cup DOMAIN b |-> IF k \in DOMAIN b THEN b[k] ELSE a[k]]
HasM(f) == commitLeft[f] > 0
TakeM(f) == commitLeft' = [commitLeft EXCEPT ![f] = @ - 1]
IdleRead == [pc |-> "idle", n |-> 0, rows |-> NoRows, start |-> NoRows, left |-> 0, lo |-> 0, hi |-> 0, at |-> 0,
             how |-> None, from |-> None, cursor |-> 0, most |-> 0, got |-> NoRows]

-----------------------------------------------------------------------------
(* The chain: a commit is written once and never replaced                  *)

Commit(k) ==
  /\ k \notin DOMAIN listing /\ HasM("commits") /\ TakeM("commits")
  /\ \E m \in commitLeft.models : listing' = Merged(listing, [x \in {k} |-> m])
  /\ UNCHANGED <<kept, cb, out, foreign, strange>>

\* Another chain answers, between two builds.
OtherChain ==
  /\ cb.pc = "idle" /\ HasM("reset") /\ TakeM("reset")
  /\ \E S \in SUBSET (1..MaxRow) : \E r \in [S -> commitLeft.models] : listing' = r
  /\ foreign' = TRUE /\ strange' = 0
  /\ UNCHANGED <<kept, cb, out>>

-----------------------------------------------------------------------------
(* The reads                                                               *)

\* The chain's row at an offset: absent, unlike the kept one, or the same.
RowAt(i, rows) ==
  LET on == Keys(listing) k == Keys(rows)[i] IN
  IF i > Len(on) THEN "absent"
  ELSE IF on[i] = k /\ listing[k] = rows[k] THEN "same" ELSE "differs"

\* The rows of one page from a key on.
PageFrom(key, most) ==
  LET S == {k \in DOMAIN listing : k >= key}
      s == SetToSortSeq(S, <)
      n == IF Len(s) < most THEN Len(s) ELSE most
  IN [k \in {s[i] : i \in 1..n} |-> listing[k]]

\* A walk of pages starts: from the first key or from a kept one, to the end (0) or for at most so many rows.
ReadFrom(b, how, from, most) ==
  [b EXCEPT !.pc = "pages", !.how = how, !.from = from, !.cursor = IF from = None THEN 1 ELSE from, !.most = most,
            !.got = NoRows]
FullRead(b) == ReadFrom(b, "full", None, 0)

\* Mutation: a build that added nothing is not counted.
KeepFault(rows, how) ==
  /\ kept' = [rows |-> rows,
              since |-> IF how = "full" THEN 0 ELSE IF how = "cached" THEN kept.since ELSE kept.since + 1]
  /\ out' = [rows |-> rows, start |-> cb.start, foreign |-> foreign /\ how # "full"]
  /\ foreign' = (foreign /\ how # "full")
  /\ strange' = IF foreign /\ how # "full" THEN strange + 1 ELSE 0
  /\ cb' = IdleRead
\* The list is kept, its way of reading counted.
Keep(rows, how) ==
  /\ kept' = [rows |-> rows, since |-> IF how = "full" THEN 0 ELSE kept.since + 1]
  /\ out' = [rows |-> rows, start |-> cb.start, foreign |-> foreign /\ how # "full"]
  /\ foreign' = (foreign /\ how # "full")
  /\ strange' = IF foreign /\ how # "full" THEN strange + 1 ELSE 0
  /\ cb' = IdleRead

Unread == cb' = IdleRead /\ UNCHANGED <<kept, out, foreign, strange>>
Goes(b) == cb' = b /\ UNCHANGED <<kept, out, foreign, strange>>
Failed == HasM("fail") /\ TakeM("fail") /\ Unread

\* Mutation: one build too many between two full reads.
FullDueFault(n) ==
  \/ n = None \/ DOMAIN kept.rows = {} \/ kept.since > FullEvery
  \/ n # None /\ (n # None => n < Cardinality(DOMAIN kept.rows))
\* A full read is due: nothing kept, a count below what is kept, or enough builds without one.
FullDue(n) ==
  \/ n = None \/ DOMAIN kept.rows = {} \/ kept.since >= FullEvery
  \/ n # None /\ (n # None => n < Cardinality(DOMAIN kept.rows))

\* The comparison starts with the newest kept row.
LookLast(b) == [b EXCEPT !.pc = "look", !.at = Cardinality(DOMAIN b.rows), !.lo = 0, !.hi = 0]

BuildStart ==
  /\ cb.pc = "idle" /\ HasM("builds")
  /\ \E n \in {Cardinality(DOMAIN listing)} \cup (IF HasM("fail") THEN {None} ELSE {}) :
       LET b == [IdleRead EXCEPT !.n = n, !.rows = kept.rows, !.start = listing, !.left = Patches + 1] IN
       /\ commitLeft' = [commitLeft EXCEPT !.builds = @ - 1, !.fail = IF n = None THEN @ - 1 ELSE @]
       /\ Goes(IF FullDue(n) THEN FullRead(b) ELSE LookLast(b))
  /\ UNCHANGED listing

\* The window to read at a gap starts on the kept row before it.
AtGap(b, gap) ==
  IF gap = 1 THEN ReadFrom(b, "window", None, Window)
  ELSE ReadFrom(b, "window", Keys(b.rows)[gap - 1], Window + 1)

\* The bisection: same up to the gap, different after it.
Narrowed(b, seen) ==
  LET lo == IF b.hi = 0 THEN 1 ELSE IF seen = "same" THEN b.at + 1 ELSE b.lo
      hi == IF b.hi = 0 \/ seen = "differs" THEN b.at ELSE b.hi
  IN IF lo < hi THEN [b EXCEPT !.lo = lo, !.hi = hi, !.at = (lo + hi - 1) \div 2] ELSE AtGap(b, lo)

\* Mutation: what follows the newest kept key is not read.
NothingBelowFault(b) ==
  IF DOMAIN b.rows = DOMAIN kept.rows THEN Keep(kept.rows, "cached") ELSE Keep(b.rows, "increment")
\* Nothing is missing below the newest kept key.
NothingBelow(b) ==
  IF b.n = Cardinality(DOMAIN kept.rows) /\ DOMAIN b.rows = DOMAIN kept.rows THEN Keep(kept.rows, "cached")
  ELSE Goes(ReadFrom(b, "tail", Last(Keys(b.rows)), 0))

\* One row is compared.
Look ==
  /\ cb.pc = "look"
  /\ \/ /\ LET seen == RowAt(cb.at, cb.rows) IN
           IF seen = "absent" THEN Goes(FullRead(cb))
           ELSE IF seen = "same" /\ cb.hi = 0 THEN NothingBelow(cb)
           ELSE Goes(Narrowed(cb, seen))
        /\ UNCHANGED commitLeft
     \/ Failed
  /\ UNCHANGED listing

\* The pages come one at a time, each naming the key the next starts on; the walk ends at the end of the listing or at its last wanted row.
MorePages(b, page) ==
  LET got == Merged(b.got, page) IN
  /\ \E k \in DOMAIN listing : k >= b.cursor /\ k \notin DOMAIN got
  /\ b.most = 0 \/ Cardinality(DOMAIN got) < b.most

\* The rows read start on the kept one and change none.
SoundRows(b) ==
  /\ b.from # None => b.from \in DOMAIN b.got
  /\ \A k \in DOMAIN b.got \cap DOMAIN b.rows : b.got[k] = b.rows[k]

\* What the rows of a finished walk lead to.
Walked(b) ==
  LET rows == Merged(b.rows, b.got) IN
  IF b.how = "full" THEN Keep(b.got, "full")
  ELSE IF ~SoundRows(b) THEN Goes(FullRead(b))
  ELSE IF b.how = "tail"
    THEN IF Cardinality(DOMAIN rows) < b.n THEN Goes(FullRead(b)) ELSE Keep(rows, "increment")
  ELSE IF b.left = 1 THEN Goes(FullRead(b))
  ELSE Goes(LookLast([b EXCEPT !.rows = rows, !.left = @ - 1]))

ReadPage ==
  /\ cb.pc = "pages"
  /\ \/ /\ LET want == IF cb.most = 0 THEN PageRows ELSE
                         LET w == cb.most - Cardinality(DOMAIN cb.got) IN IF w < PageRows THEN w ELSE PageRows
               page == PageFrom(cb.cursor, want)
               b == [cb EXCEPT !.got = Merged(@, page)]
           IN IF MorePages(cb, page)
              THEN Goes([b EXCEPT !.cursor = Min({k \in DOMAIN listing : k > Last(Keys(b.got))})])
              ELSE Walked(b)
        /\ UNCHANGED commitLeft
     \/ Failed
  /\ UNCHANGED listing

-----------------------------------------------------------------------------

Init ==
  /\ commitLeft \in CommitProfiles
  /\ listing = NoRows /\ kept = [rows |-> NoRows, since |-> 0] /\ cb = IdleRead
  /\ out = None /\ foreign = FALSE /\ strange = 0

Next ==
  \/ \E k \in 1..MaxRow : Commit(k)
  \/ OtherChain \/ BuildStart \/ Look \/ ReadPage

Spec == Init /\ [][Next]_commitvars

-----------------------------------------------------------------------------
(* Properties                                                              *)

(* The shape of the state.                                                *)
TypeOK ==
  /\ kept.since \in 0..FullEvery
  /\ cb.pc \in {"idle", "look", "pages"} /\ cb.left \in 0..(Patches + 1)
  /\ cb.pc = "look" => cb.at \in 1..Cardinality(DOMAIN cb.rows) /\ cb.lo <= cb.hi
  /\ cb.pc = "pages" => cb.from \in DOMAIN cb.rows \cup {None}

\* A list holds every commit that was on the chain when its build began and nothing that is not there, although
\* rows land anywhere in the order between the count, the comparisons, the windows and the pages.
ListComplete ==
  (out # None /\ ~foreign /\ (out # None => ~out.foreign)) =>
    /\ DOMAIN out.start \subseteq DOMAIN out.rows
    /\ \A k \in DOMAIN out.rows : k \in DOMAIN listing /\ out.rows[k] = listing[k]

\* Rows of another chain never outlive FullEvery lists: the full read comes before that.
ForeignBounded == strange <= FullEvery
==============================================================================
