-------------------------- MODULE CanonicalProofs --------------------------
(***************************************************************************)
(* Proofs about Canonical, for any sources, families of branches, evidence *)
(* and reviewers.                                                          *)
(***************************************************************************)
EXTENDS Canonical, TLAPS

(* The type invariant.                                                     *)

LEMMA InitCanonicalInv == Init => CanonicalInv
BY CanonicalAssumption DEF Init, CanonicalInv, AnId, Imports, Reviews, IdleImport, IdleReview, Verdicts

\* An import touches no merge and no review.
LEMMA ImportKeepsCanonicalInv ==
    ASSUME CanonicalInv, Import
    PROVE  CanonicalInv'
<1> USE CanonicalAssumption DEF AnId, Imports, bounds
<1>0. reviews \in 0 .. MaxReviews /\ events \in 0 .. MaxEvents
  BY DEF CanonicalInv
<1>1. ASSUME NEW s \in Sources, WriteNew(s) PROVE CanonicalInv'
  BY <1>1 DEF WriteNew, CanonicalInv, identity, queue
<1>2. ASSUME NEW s \in Sources, DecideContinued(s) PROVE CanonicalInv'
  <2>1. events' \in 0 .. MaxEvents
    BY <1>0, <1>2 DEF DecideContinued
  <2>2. record[s] \in Ids
    BY <1>2 DEF DecideContinued, CanonicalInv
  <2> QED BY <1>2, <2>1, <2>2 DEF DecideContinued, CanonicalInv, identity, queue
<1>3. CASE WriteContinued
  BY <1>3 DEF WriteContinued, CanonicalInv, identity, queue, IdleImport
<1>4. CASE CreateRecord
  <2>1. importer \in [pc : {"noted", "recorded", "ensured"}, source : Sources]
    BY <1>4 DEF CreateRecord, CanonicalInv, IdleImport
  <2>2. /\ importer' \in [pc : {"noted", "recorded", "ensured"}, source : Sources]
        /\ importer'.pc = "recorded" /\ importer'.source = importer.source
    BY <1>4, <2>1 DEF CreateRecord
  <2>3. home[importer.source] \in Ids
    BY <2>1 DEF CanonicalInv
  <2> QED BY <1>4, <2>1, <2>2, <2>3 DEF CreateRecord, CanonicalInv, queue
<1>5. CASE EnsureCanonical
  <2>1. importer \in [pc : {"noted", "recorded", "ensured"}, source : Sources]
    BY <1>5 DEF EnsureCanonical, CanonicalInv, IdleImport
  <2>2. /\ importer' \in [pc : {"noted", "recorded", "ensured"}, source : Sources]
        /\ importer'.pc = "ensured"
    BY <1>5, <2>1 DEF EnsureCanonical
  <2>3. home[importer.source] \in Ids
    BY <2>1 DEF CanonicalInv
  <2> QED BY <1>5, <2>1, <2>2, <2>3 DEF EnsureCanonical, CanonicalInv, queue
<1>6. CASE Detect
  BY <1>6 DEF Detect, CanonicalInv, identity, queue, Waiting, Proposals, IdleImport
<1>7. ASSUME NEW c \in Candidates, Upsert(c) PROVE CanonicalInv'
  BY <1>7 DEF Upsert, CanonicalInv, identity, Waiting, IdleImport
<1>8. CASE ImportDies
  <2>1. events' \in 0 .. MaxEvents
    BY <1>0, <1>8 DEF ImportDies
  <2> QED BY <1>8, <2>1 DEF ImportDies, CanonicalInv, identity, queue, IdleImport
<1> QED BY <1>1, <1>2, <1>3, <1>4, <1>5, <1>6, <1>7, <1>8 DEF Import

LEMMA ReviewKeepsCanonicalInv ==
    ASSUME CanonicalInv, NEW r \in Reviewers, Review(r)
    PROVE  CanonicalInv'
<1> USE CanonicalAssumption DEF AnId, bounds
<1>a. ASSUME UNCHANGED <<identity, queue, note, importer>>, indexed' \in [Sources -> AnId],
             reviews' \in 0 .. MaxReviews, events' \in 0 .. MaxEvents,
             NEW v \in Reviews, review' = [review EXCEPT ![r] = v],
             v.pc \in {"loser", "write"} => v.to \in rows,
             v.pc = "write" => v.at \in rows
      PROVE  CanonicalInv'
  BY <1>a DEF CanonicalInv, identity, queue
<1>0. reviews \in 0 .. MaxReviews /\ events \in 0 .. MaxEvents
  BY DEF CanonicalInv
<1>1. ASSUME NEW c \in Candidates, ReadToReject(r, c) PROVE CanonicalInv'
  <2>1. [pc |-> "reject", candidate |-> c] \in Reviews
    BY DEF Reviews
  <2>2. reviews' \in 0 .. MaxReviews
    BY <1>0, <1>1 DEF ReadToReject
  <2> QED BY <1>0, <1>a, <1>1, <2>1, <2>2 DEF ReadToReject, CanonicalInv
<1>2. ASSUME NEW c \in Candidates, NEW s \in Sources, NEW t \in Sources, ReadToConfirm(r, c, s, t)
      PROVE  CanonicalInv'
  <2> DEFINE v == [pc |-> "winner", candidate |-> c, status |-> candidate[c],
            at |-> record[s], seen |-> {}, to |-> NoId,
            loser |-> record[t], overtaken |-> FALSE]
  <2>1. v \in Reads
    BY <1>2 DEF ReadToConfirm, Reads, CanonicalInv
  <2>2. v.pc = "winner"
    OBVIOUS
  <2> HIDE DEF v
  <2>3. review' = [review EXCEPT ![r] = v]
    BY <1>2 DEF ReadToConfirm, v
  <2>4. reviews' \in 0 .. MaxReviews
    BY <1>0, <1>2 DEF ReadToConfirm
  <2>5. v \in Reviews
    BY <2>1 DEF Reviews
  <2> QED BY <1>0, <1>a, <1>2, <2>2, <2>3, <2>4, <2>5 DEF ReadToConfirm, CanonicalInv
<1>b. IdleReview \in Reviews /\ IdleReview.pc = "idle"
  BY DEF IdleReview, Reviews
<1>c. review[r] \in Reviews
  BY DEF CanonicalInv
<1>d. review[r].pc \in {"winner", "loser", "write"} => review[r] \in Reads
  BY <1>c DEF Reviews, IdleReview
<1>3. CASE WriteRejected(r)
  <2>1. review[r] \in [pc : {"reject"}, candidate : Candidates]
    BY <1>3, <1>c DEF WriteRejected, Reviews, Reads, IdleReview
  <2>2. review[r].candidate.pair \in Pairs
    BY <2>1 DEF Candidates
  <2> QED BY <1>3, <1>b, <2>1, <2>2 DEF WriteRejected, CanonicalInv, identity, Verdicts
<1>4. CASE FollowMerged(r)
  <2> DEFINE i == review[r].at
             v == [review[r] EXCEPT !.at = into[i], !.seen = @ \cup {i}]
  <2>1. review[r] \in Reads /\ review[r].pc \in {"winner", "loser"} /\ into[i] \in Ids
    BY <1>4, <1>d DEF FollowMerged, Resolving, CanonicalInv, Reads
  <2>2. v \in Reads /\ v.pc = review[r].pc /\ v.to = review[r].to
    BY <2>1 DEF Reads
  <2>3. review' = [review EXCEPT ![r] = v]
    BY <1>4, <1>c DEF FollowMerged, CanonicalInv
  <2> HIDE DEF v
  <2> QED BY <1>a, <1>4, <2>1, <2>2, <2>3 DEF FollowMerged, CanonicalInv, Reviews
<1>5. CASE ResolvedWinner(r)
  <2> DEFINE i == review[r].at
             v == [review[r] EXCEPT !.pc = "loser", !.to = i, !.at = review[r].loser, !.seen = {}]
  <2>1. review[r] \in Reads /\ i \in rows
    BY <1>5, <1>d DEF ResolvedWinner
  <2>2. v \in Reads /\ v.pc = "loser" /\ v.to = i
    BY <2>1 DEF Reads
  <2>3. review' = [review EXCEPT ![r] = v]
    BY <1>5, <1>c DEF ResolvedWinner, CanonicalInv
  <2> HIDE DEF v
  <2> QED BY <1>a, <1>5, <2>1, <2>2, <2>3 DEF ResolvedWinner, CanonicalInv, Reviews
<1>6. CASE ResolvedLoser(r)
  <2> DEFINE v == [review[r] EXCEPT !.pc = "write"]
  <2>1. review[r] \in Reads /\ review[r].at \in rows /\ review[r].to \in rows
    BY <1>6, <1>d DEF ResolvedLoser, CanonicalInv
  <2>2. v \in Reads /\ v.pc = "write" /\ v.to = review[r].to /\ v.at = review[r].at
    BY <2>1 DEF Reads
  <2>3. review' = [review EXCEPT ![r] = v]
    BY <1>6, <1>c DEF ResolvedLoser, CanonicalInv
  <2> HIDE DEF v
  <2> QED BY <1>a, <1>6, <2>1, <2>2, <2>3 DEF ResolvedLoser, CanonicalInv, Reviews
<1>7. CASE Unresolved(r)
  BY <1>a, <1>b, <1>7 DEF Unresolved, CanonicalInv
<1>8. CASE WriteConfirmed(r)
  <2> DEFINE c == review[r].candidate
             v(q) == IF q = r THEN [pc |-> "refresh", pair |-> c.pair, to |-> review[r].to]
                     ELSE IF Resolving(q) \/ review[q].pc = "write"
                     THEN [review[q] EXCEPT !.overtaken = TRUE]
                     ELSE review[q]
  <2>1. review[r] \in Reads /\ review[r].at \in rows /\ review[r].to \in rows
    BY <1>8, <1>d DEF WriteConfirmed, CanonicalInv
  <2>2. c \in Candidates /\ c.pair \in Pairs
    BY <2>1 DEF Reads, Candidates
  <2>3. /\ candidate' \in [Candidates -> {"none", "pending"} \cup Verdicts]
        /\ decided' \subseteq Pairs \X Verdicts /\ joined' \subseteq Pairs
    BY <1>8, <2>2 DEF WriteConfirmed, CanonicalInv, Verdicts
  <2>4. /\ record' \in [Sources -> AnId] /\ into' \in [Ids -> AnId]
        /\ \A i \in Ids : into'[i] # NoId => i \in rows /\ into'[i] \in rows
        /\ \A s \in Sources : record'[s] \in {record[s], review[r].to}
    BY <1>8, <2>1 DEF WriteConfirmed, Link, CanonicalInv
  <2>5. ASSUME NEW q \in Reviewers
        PROVE  /\ v(q) \in Reviews
               /\ v(q).pc \in {"loser", "write"} => v(q).to \in rows
               /\ v(q).pc = "write" => v(q).at \in rows
    <3>1. CASE q = r
      BY <3>1, <2>1, <2>2 DEF Reviews, CanonicalInv
    <3>2. CASE q # r /\ (Resolving(q) \/ review[q].pc = "write")
      <4>1. review[q] \in Reads
        BY <3>2 DEF CanonicalInv, Reviews, Resolving, IdleReview
      <4>2. [review[q] EXCEPT !.overtaken = TRUE] \in Reads
        BY <4>1 DEF Reads
      <4> QED BY <3>2, <4>1, <4>2 DEF Reviews, CanonicalInv, Reads
    <3>3. CASE q # r /\ ~(Resolving(q) \/ review[q].pc = "write")
      BY <3>3 DEF CanonicalInv
    <3> QED BY <3>1, <3>2, <3>3
  <2>6. review' = [q \in Reviewers |-> v(q)]
    BY <1>8 DEF WriteConfirmed
  <2> HIDE DEF v
  <2>7. /\ review' \in [Reviewers -> Reviews]
        /\ \A q \in Reviewers : /\ review'[q].pc \in {"loser", "write"} => review'[q].to \in rows
                                /\ review'[q].pc = "write" => review'[q].at \in rows
    BY <2>5, <2>6
  <2>8. importer.source \in Sources \/ importer.pc # "recorded"
    BY DEF CanonicalInv, Imports, IdleImport
  <2> QED BY <1>8, <2>1, <2>3, <2>4, <2>7, <2>8 DEF WriteConfirmed, CanonicalInv
<1>9. CASE RollBack(r)
  BY <1>a, <1>b, <1>9 DEF RollBack, CanonicalInv
<1>10. CASE RefreshIndex(r)
  <2>1. review[r].to \in Ids
    BY <1>10, <1>c DEF RefreshIndex, Reviews, Reads, IdleReview
  <2> QED BY <1>a, <1>b, <1>10, <2>1 DEF RefreshIndex, CanonicalInv
<1>11. CASE ReviewDies(r)
  <2>1. events' \in 0 .. MaxEvents
    BY <1>0, <1>11 DEF ReviewDies
  <2> QED BY <1>0, <1>a, <1>b, <1>11, <2>1 DEF ReviewDies, CanonicalInv
<1> QED BY <1>1, <1>2, <1>3, <1>4, <1>5, <1>6, <1>7, <1>8, <1>9, <1>10, <1>11 DEF Review

\* For any sources, families, evidence and reviewers: a record created whole
\* carries the id of a row, and so does a merged row, however reviews and
\* imports interleave and wherever they are cut off.
THEOREM CanonicalInvariant == Spec => []CanonicalInv
<1>1. CanonicalInv /\ [Next]_vars => CanonicalInv'
  <2> SUFFICES ASSUME CanonicalInv, [Next]_vars PROVE CanonicalInv'
    OBVIOUS
  <2>1. CASE Import
    BY <2>1, ImportKeepsCanonicalInv
  <2>2. ASSUME NEW s \in Sources, IndexFile(s) PROVE CanonicalInv'
    <3>1. events' \in 0 .. MaxEvents
      BY <2>2, CanonicalAssumption DEF IndexFile, CanonicalInv
    <3> QED BY <2>2, <3>1 DEF IndexFile, CanonicalInv, identity, queue
  <2>3. ASSUME NEW r \in Reviewers, Review(r) PROVE CanonicalInv'
    BY <2>3, ReviewKeepsCanonicalInv
  <2>4. CASE UNCHANGED vars
    BY <2>4 DEF vars, identity, queue, bounds, CanonicalInv
  <2> QED BY <2>1, <2>2, <2>3, <2>4 DEF Next
<1> QED BY <1>1, InitCanonicalInv, PTL DEF Spec

-----------------------------------------------------------------------------
(* No circle: a merge leads from a row to one that is active when the      *)
(* transaction commits, whatever was active when the reviewer read it.     *)

EveryRowResolves == \A i \in rows : LeadsToActive(i)

LEMMA LinkKeepsResolving ==
    ASSUME CanonicalInv, EveryRowResolves, NEW from \in rows, NEW to \in rows,
           StaysActive(to), Link(from, to), rows' = rows
    PROVE  EveryRowResolves'
<1>1. CASE from = to
  BY <1>1 DEF Link, EveryRowResolves, LeadsToActive
<1>2. CASE from # to
  <2> SUFFICES ASSUME NEW i \in rows, NEW S \in SUBSET Ids, i \in S,
                      \A j \in S : into'[j] # NoId => into'[j] \in S
               PROVE  \E j \in S : j \in rows /\ into'[j] = NoId
    BY <1>2 DEF EveryRowResolves, LeadsToActive, Link
  <2>1. /\ from \in Ids /\ to \in Ids /\ to # NoId
        /\ into'[from] = to /\ into'[to] = NoId
        /\ \A j \in Ids \ {from} : into'[j] = into[j]
    BY <1>2, CanonicalAssumption DEF Link, CanonicalInv, StaysActive
  <2>2. CASE from \in S
    BY <2>1, <2>2
  <2>3. CASE from \notin S
    <3>1. \A j \in S : into'[j] = into[j]
      BY <2>1, <2>3
    <3>2. \A j \in S : into[j] # NoId => into[j] \in S
      BY <3>1
    <3>3. PICK j \in S : j \in rows /\ into[j] = NoId
      BY <3>2 DEF EveryRowResolves, LeadsToActive
    <3> QED BY <3>1, <3>3
  <2> QED BY <2>2, <2>3
<1> QED BY <1>1, <1>2

LEMMA ReadsAreTyped ==
    ASSUME CanonicalInv, NEW r \in Reviewers, review[r].pc \in {"winner", "loser", "write"}
    PROVE  review[r] \in Reads
BY DEF CanonicalInv, Reviews, IdleReview

LEMMA StepKeepsResolving ==
    ASSUME CanonicalInv, EveryRowResolves, [Next]_vars
    PROVE  EveryRowResolves'
<1>1. CASE UNCHANGED <<rows, into>>
  BY <1>1 DEF EveryRowResolves, LeadsToActive
<1>2. CASE EnsureCanonical
  <2>1. rows \subseteq rows' /\ into' = into
    BY <1>2 DEF EnsureCanonical
  <2>2. ASSUME NEW i \in rows' PROVE LeadsToActive(i)'
    <3>1. CASE i \in rows
      BY <2>1, <3>1 DEF EveryRowResolves, LeadsToActive
    <3>2. CASE i \notin rows
      <4>1. i \in Ids
        <5>1. importer \in [pc : {"noted", "recorded", "ensured"}, source : Sources]
          BY <1>2 DEF EnsureCanonical, CanonicalInv, Imports, IdleImport
        <5> QED BY <1>2, <2>2, <3>2, <5>1, CanonicalAssumption DEF EnsureCanonical, CanonicalInv
      <4>2. into'[i] = NoId
        BY <2>1, <3>2, <4>1 DEF CanonicalInv
      <4> QED BY <2>2, <4>2 DEF LeadsToActive
    <3> QED BY <3>1, <3>2
  <2> QED BY <2>2 DEF EveryRowResolves
<1>3. ASSUME NEW r \in Reviewers, WriteConfirmed(r) PROVE EveryRowResolves'
  <2>1. review[r].at \in rows /\ review[r].to \in rows
    BY <1>3 DEF WriteConfirmed, CanonicalInv
  <2>2. StaysActive(review[r].to) /\ Link(review[r].at, review[r].to) /\ rows' = rows
    BY <1>3 DEF WriteConfirmed
  <2> QED BY <2>1, <2>2, LinkKeepsResolving
<1>4. ASSUME NEW r \in Reviewers, Review(r), ~WriteConfirmed(r) PROVE UNCHANGED <<rows, into>>
  BY <1>4 DEF Review, ReadToReject, ReadToConfirm, WriteRejected, FollowMerged, ResolvedWinner,
      ResolvedLoser, Unresolved, RollBack, RefreshIndex, ReviewDies, identity
<1>5. CASE Import /\ ~EnsureCanonical
  <2>1. UNCHANGED <<rows, into>>
    BY <1>5 DEF Import, WriteNew, DecideContinued, WriteContinued, CreateRecord, Detect, Upsert,
        ImportDies, identity
  <2> QED BY <1>1, <2>1
<1>6. ASSUME NEW s \in Sources, IndexFile(s) PROVE UNCHANGED <<rows, into>>
  BY <1>6 DEF IndexFile, identity
<1> QED BY <1>1, <1>2, <1>3, <1>4, <1>5, <1>6 DEF Next, vars, identity

\* Two reviewers who merge at the same time, of what each read before, never
\* close a circle, for any number of them and of sources: the post-conditions
\* see the winner within the transaction.
THEOREM RecordsResolve == Spec => []EveryRecordResolves
<1>1. Init => EveryRowResolves
  BY DEF Init, EveryRowResolves
<1>2. CanonicalInv /\ EveryRowResolves /\ [Next]_vars => EveryRowResolves'
  BY StepKeepsResolving
<1>3. CanonicalInv /\ EveryRowResolves => EveryRecordResolves
  BY DEF CanonicalInv, EveryRowResolves, EveryRecordResolves
<1> QED BY <1>1, <1>2, <1>3, CanonicalInvariant, PTL DEF Spec

-----------------------------------------------------------------------------
(* Collapse.  An id belongs to a source if it was derived for one that the *)
(* source is tied to; every id anything holds for a source belongs to it.  *)

Belongs(s, i) == \E u \in Sources : home[u] = i /\ Tied(s, u)

HoldsOwnIds(ids) == \A s \in Sources : ids[s] # NoId => Belongs(s, ids[s])

Confirmed(pair) == <<pair, "confirmed_same">> \in decided

\* What a review read, and is about to write.
ReviewIsEarned(v) ==
    /\ v.pc \in {"winner", "loser", "write"} =>
           /\ v.status = "confirmed_same" => Confirmed(v.candidate.pair)
           /\ \E winner, loser \in Sources :
                  /\ v.candidate.pair = {winner, loser}
                  /\ Belongs(winner, IF v.pc = "winner" THEN v.at ELSE v.to)
                  /\ Belongs(loser, IF v.pc = "winner" THEN v.loser ELSE v.at)
    /\ v.pc = "refresh" => \A s \in v.pair : s \in Sources /\ Belongs(s, v.to)

EarnedInv ==
    /\ HoldsOwnIds(record) /\ HoldsOwnIds(note) /\ HoldsOwnIds(indexed)
    /\ \A s \in Sources : into[home[s]] # NoId => Belongs(s, into[home[s]])
    /\ \A c \in Candidates : candidate[c] = "confirmed_same" => Confirmed(c.pair)
    /\ importer.pc = "continued" => Belongs(importer.source, importer.id)
    /\ \A r \in Reviewers : ReviewIsEarned(review[r])

LEMMA TiesAreAnEquivalence ==
    ASSUME NEW s \in Sources, NEW t \in Sources, NEW u \in Sources
    PROVE  /\ Tied(s, s)
           /\ Tied(s, t) => Tied(t, s)
           /\ Tied(s, t) /\ Tied(t, u) => Tied(s, u)
BY DEF Tied

\* Branches of one conversation and confirmed pairs are tied.
LEMMA WhatTies ==
    ASSUME NEW s \in Sources, NEW t \in Sources,
           home[s] = home[t] \/ Confirmed({s, t})
    PROVE  Tied(s, t)
BY DEF Tied, IsClosed, Confirmed

\* Decisions are never taken back, so ties stay.
LEMMA TiesStay ==
    ASSUME home' = home, decided \subseteq decided', NEW s \in Sources, NEW t \in Sources, Tied(s, t)
    PROVE  Tied(s, t)'
<1>1. ASSUME NEW group \in SUBSET Sources, IsClosed(group)' PROVE IsClosed(group)
  BY <1>1 DEF IsClosed
<1> QED BY <1>1 DEF Tied

\* An id that belongs to one source belongs to those it is tied to.
LEMMA TiedShareIds ==
    ASSUME NEW s \in Sources, NEW t \in Sources, Tied(s, t), NEW i, Belongs(t, i)
    PROVE  Belongs(s, i)
<1>1. PICK u \in Sources : home[u] = i /\ Tied(t, u)
  BY DEF Belongs
<1>2. Tied(s, u)
  BY <1>1, TiesAreAnEquivalence
<1> QED BY <1>1, <1>2 DEF Belongs

\* Two sources with an id that belongs to both are tied.
LEMMA SharedIdsTie ==
    ASSUME NEW s \in Sources, NEW t \in Sources, NEW i, Belongs(s, i), Belongs(t, i)
    PROVE  Tied(s, t)
<1>1. PICK u \in Sources : home[u] = i /\ Tied(s, u)
  BY DEF Belongs
<1>2. PICK v \in Sources : home[v] = i /\ Tied(t, v)
  BY DEF Belongs
<1>3. Tied(u, v)
  BY <1>1, <1>2, WhatTies
<1>4. Tied(s, v) /\ Tied(v, t)
  BY <1>1, <1>2, <1>3, TiesAreAnEquivalence
<1> QED BY <1>4, TiesAreAnEquivalence

LEMMA BelongingStays ==
    ASSUME home' = home, decided \subseteq decided'
    PROVE  /\ \A s \in Sources : \A i : Belongs(s, i) => Belongs(s, i)'
           /\ \A v : ReviewIsEarned(v) => ReviewIsEarned(v)'
<1>1. ASSUME NEW s \in Sources, NEW i, Belongs(s, i) PROVE Belongs(s, i)'
  <2>1. PICK u \in Sources : home[u] = i /\ Tied(s, u)
    BY <1>1 DEF Belongs
  <2>2. home'[u] = i /\ Tied(s, u)'
    BY <2>1, TiesStay
  <2> QED BY <2>2 DEF Belongs
<1>2. ASSUME NEW v, ReviewIsEarned(v) PROVE ReviewIsEarned(v)'
  BY <1>1, <1>2 DEF ReviewIsEarned, Confirmed
<1> QED BY <1>1, <1>2

LEMMA InitEarned == Init => EarnedInv
<1> SUFFICES ASSUME Init PROVE EarnedInv
  OBVIOUS
<1>1. \A s \in Sources : home[s] \in Ids
  BY CanonicalAssumption DEF Init
<1>2. \A r \in Reviewers : ReviewIsEarned(review[r])
  BY DEF Init, ReviewIsEarned, IdleReview
<1> QED BY <1>1, <1>2 DEF Init, EarnedInv, HoldsOwnIds, IdleImport

\* The id derived for a source belongs to it.
LEMMA OwnHomeBelongs ==
    ASSUME NEW s \in Sources
    PROVE  Belongs(s, home[s])
BY TiesAreAnEquivalence DEF Belongs

LEMMA ImportKeepsEarned ==
    ASSUME CanonicalInv, EarnedInv, Import
    PROVE  EarnedInv'
<1>1. /\ UNCHANGED <<home, into, decided, indexed, review>>
      /\ candidate' = candidate \/ \E c \in Candidates : Upsert(c)
  BY DEF Import, WriteNew, DecideContinued, WriteContinued, CreateRecord, EnsureCanonical, Detect,
     Upsert, ImportDies, identity, queue
<1>2. /\ \A s \in Sources : \A i : Belongs(s, i) => Belongs(s, i)'
      /\ \A v : ReviewIsEarned(v) => ReviewIsEarned(v)'
  BY <1>1, BelongingStays
<1>3. /\ HoldsOwnIds(indexed)'
      /\ \A s \in Sources : into'[home'[s]] # NoId => Belongs(s, into[home[s]])'
  BY <1>1, <1>2 DEF EarnedInv, HoldsOwnIds
<1>4. \A c \in Candidates : candidate'[c] = "confirmed_same" => Confirmed(c.pair)'
  <2>1. CASE candidate' = candidate
    BY <1>1, <2>1 DEF EarnedInv, Confirmed
  <2>2. ASSUME NEW d \in Candidates, Upsert(d)
        PROVE  \A c \in Candidates : candidate'[c] = "confirmed_same" => candidate[c] = "confirmed_same"
    BY <2>2 DEF Upsert, CanonicalInv
  <2> QED BY <1>1, <2>1, <2>2 DEF EarnedInv, Confirmed
<1>5. \A r \in Reviewers : ReviewIsEarned(review[r])'
  BY <1>1, <1>2 DEF EarnedInv, ReviewIsEarned
<1>6. HoldsOwnIds(record)'
  <2>1. CASE record' = record
    BY <1>2, <2>1 DEF EarnedInv, HoldsOwnIds
  <2>2. CASE CreateRecord
    <3>1. importer.source \in Sources
      BY <2>2 DEF CreateRecord, CanonicalInv, Imports, IdleImport
    <3>2. \A s \in Sources : record'[s] = IF s = importer.source THEN home[s] ELSE record[s]
      BY <2>2, <3>1 DEF CreateRecord, CanonicalInv
    <3> QED BY <1>2, <3>2, OwnHomeBelongs DEF EarnedInv, HoldsOwnIds
  <2> QED BY <2>1, <2>2 DEF Import, WriteNew, DecideContinued, WriteContinued, EnsureCanonical, Detect,
          Upsert, ImportDies, identity
<1>7. HoldsOwnIds(note)'
  <2>1. CASE note' = note
    BY <1>2, <2>1 DEF EarnedInv, HoldsOwnIds
  <2>2. ASSUME NEW t \in Sources, WriteNew(t) PROVE HoldsOwnIds(note)'
    <3>1. \A s \in Sources : note'[s] = IF s = t THEN home[s] ELSE note[s]
      BY <2>2 DEF WriteNew, CanonicalInv
    <3> QED BY <1>2, <3>1, OwnHomeBelongs DEF EarnedInv, HoldsOwnIds
  <2>3. CASE WriteContinued
    <3>1. importer.source \in Sources /\ Belongs(importer.source, importer.id)
      BY <2>3 DEF WriteContinued, CanonicalInv, Imports, IdleImport, EarnedInv
    <3>2. \A s \in Sources : note'[s] = IF s = importer.source THEN importer.id ELSE note[s]
      BY <2>3, <3>1 DEF WriteContinued, CanonicalInv
    <3> QED BY <1>2, <3>1, <3>2 DEF EarnedInv, HoldsOwnIds
  <2> QED BY <2>1, <2>2, <2>3 DEF Import, DecideContinued, CreateRecord, EnsureCanonical, Detect,
          Upsert, ImportDies
<1>8. importer'.pc = "continued" => Belongs(importer.source, importer.id)'
  <2>1. ASSUME NEW s \in Sources, DecideContinued(s)
        PROVE  importer'.source = s /\ importer'.id = record[s] /\ Belongs(s, record[s])
    BY <2>1 DEF DecideContinued, EarnedInv, HoldsOwnIds
  <2>2. \/ importer'.pc # "continued"
        \/ \E s \in Sources : DecideContinued(s)
    <3>1. ASSUME NEW s \in Sources, WriteNew(s) PROVE importer'.pc # "continued"
      BY <3>1 DEF WriteNew
    <3>2. CASE CreateRecord \/ EnsureCanonical
      <4>1. importer \in [pc : {"noted", "recorded", "ensured"}, source : Sources]
        BY <3>2 DEF CreateRecord, EnsureCanonical, CanonicalInv, Imports, IdleImport
      <4> QED BY <3>2, <4>1 DEF CreateRecord, EnsureCanonical
    <3>3. CASE WriteContinued \/ Detect \/ ImportDies
      BY <3>3 DEF WriteContinued, Detect, ImportDies, Waiting, IdleImport
    <3>4. ASSUME NEW c \in Candidates, Upsert(c) PROVE importer'.pc # "continued"
      BY <3>4 DEF Upsert, Waiting, IdleImport
    <3> QED BY <3>1, <3>2, <3>3, <3>4 DEF Import
  <2> QED BY <1>2, <2>1, <2>2
<1> QED BY <1>3, <1>4, <1>5, <1>6, <1>7, <1>8 DEF EarnedInv

\* Steps of one review that touch nothing the others hold.
LEMMA OneReviewMoves ==
    ASSUME CanonicalInv, EarnedInv, NEW r \in Reviewers, NEW v, review' = [review EXCEPT ![r] = v],
           UNCHANGED <<home, record, into, note, indexed, importer>>, decided \subseteq decided',
           \A c \in Candidates : candidate'[c] = "confirmed_same" => candidate[c] = "confirmed_same",
           ReviewIsEarned(v)
    PROVE  EarnedInv'
<1>1. /\ \A s \in Sources : \A i : Belongs(s, i) => Belongs(s, i)'
      /\ \A w : ReviewIsEarned(w) => ReviewIsEarned(w)'
  BY BelongingStays
<1>2. HoldsOwnIds(record)' /\ HoldsOwnIds(note)' /\ HoldsOwnIds(indexed)'
  BY <1>1 DEF EarnedInv, HoldsOwnIds
<1>3. \A s \in Sources : into'[home'[s]] # NoId => Belongs(s, into[home[s]])'
  BY <1>1 DEF EarnedInv
<1>4. \A c \in Candidates : candidate'[c] = "confirmed_same" => Confirmed(c.pair)'
  BY DEF EarnedInv, Confirmed
<1>5. importer'.pc = "continued" => Belongs(importer.source, importer.id)'
  <2>1. importer.pc = "continued" => importer.source \in Sources
    BY DEF CanonicalInv, Imports, IdleImport
  <2> QED BY <1>1, <2>1 DEF EarnedInv
<1>6. \A q \in Reviewers : ReviewIsEarned(review[q])'
  <2>1. \A q \in Reviewers : review'[q] = IF q = r THEN v ELSE review[q]
    BY DEF CanonicalInv
  <2>2. ReviewIsEarned(v)' /\ \A q \in Reviewers : ReviewIsEarned(review[q])
    BY <1>1 DEF EarnedInv
  <2> QED BY <1>1, <2>1, <2>2 DEF ReviewIsEarned
<1> QED BY <1>2, <1>3, <1>4, <1>5, <1>6 DEF EarnedInv

\* The end of a walk still belongs to the source it began with.
LEMMA FollowedBelongs ==
    ASSUME EarnedInv, NEW s \in Sources, NEW i, Belongs(s, i), into[i] # NoId
    PROVE  Belongs(s, into[i])
<1>1. PICK u \in Sources : home[u] = i /\ Tied(s, u)
  BY DEF Belongs
<1>2. Belongs(u, into[i])
  BY <1>1 DEF EarnedInv
<1> QED BY <1>1, <1>2, TiedShareIds

LEMMA ReadingKeepsEarned ==
    ASSUME CanonicalInv, EarnedInv, NEW r \in Reviewers, Review(r), ~WriteConfirmed(r), ~RefreshIndex(r)
    PROVE  EarnedInv'
<1>a. ReviewIsEarned(IdleReview)
  BY DEF ReviewIsEarned, IdleReview
<1>b. ReviewIsEarned(review[r])
  BY DEF EarnedInv
<1>1. ASSUME NEW c \in Candidates, ReadToReject(r, c) PROVE EarnedInv'
  <2>1. ReviewIsEarned([pc |-> "reject", candidate |-> c])
    BY DEF ReviewIsEarned
  <2> QED BY <1>1, <2>1, OneReviewMoves DEF ReadToReject, identity, queue
<1>2. ASSUME NEW c \in Candidates, NEW s \in Sources, NEW t \in Sources, ReadToConfirm(r, c, s, t)
      PROVE  EarnedInv'
  <2> DEFINE v == [pc |-> "winner", candidate |-> c, status |-> candidate[c],
            at |-> record[s], seen |-> {}, to |-> NoId,
            loser |-> record[t], overtaken |-> FALSE]
  <2>1. c.pair = {s, t} /\ Belongs(s, record[s]) /\ Belongs(t, record[t])
    BY <1>2 DEF ReadToConfirm, EarnedInv, HoldsOwnIds
  <2>2. candidate[c] = "confirmed_same" => Confirmed(c.pair)
    BY DEF EarnedInv
  <2>3. ReviewIsEarned(v)
    BY <2>1, <2>2 DEF ReviewIsEarned
  <2> QED BY <1>2, <2>3, OneReviewMoves DEF ReadToConfirm, identity, queue
<1>3. CASE WriteRejected(r)
  <2>1. /\ decided \subseteq decided'
        /\ \A c \in Candidates : candidate'[c] = "confirmed_same" => candidate[c] = "confirmed_same"
    BY <1>3 DEF WriteRejected, CanonicalInv
  <2> QED BY <1>3, <1>a, <2>1, OneReviewMoves DEF WriteRejected, identity
<1>4. CASE FollowMerged(r)
  <2> DEFINE i == review[r].at
             v == [review[r] EXCEPT !.at = into[i], !.seen = @ \cup {i}]
  <2>1. review[r] \in Reads /\ review[r].pc \in {"winner", "loser"} /\ into[i] # NoId
    BY <1>4, ReadsAreTyped DEF FollowMerged, Resolving
  <2>2. /\ v.pc = review[r].pc /\ v.status = review[r].status /\ v.candidate = review[r].candidate
        /\ v.to = review[r].to /\ v.loser = review[r].loser /\ v.at = into[i]
    BY <2>1 DEF Reads
  <2>3. review' = [review EXCEPT ![r] = v]
    BY <1>4 DEF FollowMerged, CanonicalInv
  <2> HIDE DEF v
  <2>4. ReviewIsEarned(v)
    BY <1>b, <2>1, <2>2, FollowedBelongs DEF ReviewIsEarned
  <2> QED BY <1>4, <2>3, <2>4, OneReviewMoves DEF FollowMerged, identity, queue
<1>5. CASE ResolvedWinner(r)
  <2> DEFINE i == review[r].at
             v == [review[r] EXCEPT !.pc = "loser", !.to = i, !.at = review[r].loser, !.seen = {}]
  <2>1. review[r] \in Reads /\ review[r].pc = "winner"
    BY <1>5, ReadsAreTyped DEF ResolvedWinner
  <2>2. /\ v.pc = "loser" /\ v.status = review[r].status /\ v.candidate = review[r].candidate
        /\ v.to = i /\ v.at = review[r].loser
    BY <2>1 DEF Reads
  <2>3. review' = [review EXCEPT ![r] = v]
    BY <1>5 DEF ResolvedWinner, CanonicalInv
  <2> HIDE DEF v
  <2>4. ReviewIsEarned(v)
    BY <1>b, <2>1, <2>2 DEF ReviewIsEarned
  <2> QED BY <1>5, <2>3, <2>4, OneReviewMoves DEF ResolvedWinner, identity, queue
<1>6. CASE ResolvedLoser(r)
  <2> DEFINE v == [review[r] EXCEPT !.pc = "write"]
  <2>1. review[r] \in Reads /\ review[r].pc = "loser"
    BY <1>6, ReadsAreTyped DEF ResolvedLoser
  <2>2. /\ v.pc = "write" /\ v.status = review[r].status /\ v.candidate = review[r].candidate
        /\ v.to = review[r].to /\ v.at = review[r].at
    BY <2>1 DEF Reads
  <2>3. review' = [review EXCEPT ![r] = v]
    BY <1>6 DEF ResolvedLoser, CanonicalInv
  <2> HIDE DEF v
  <2>4. ReviewIsEarned(v)
    BY <1>b, <2>1, <2>2 DEF ReviewIsEarned
  <2> QED BY <1>6, <2>3, <2>4, OneReviewMoves DEF ResolvedLoser, identity, queue
<1>7. CASE Unresolved(r) \/ RollBack(r) \/ ReviewDies(r)
  BY <1>7, <1>a, OneReviewMoves DEF Unresolved, RollBack, ReviewDies, identity, queue
<1> QED BY <1>1, <1>2, <1>3, <1>4, <1>5, <1>6, <1>7 DEF Review

\* A confirmation ties the two, so what is linked belongs to both.
LEMMA ConfirmingKeepsEarned ==
    ASSUME CanonicalInv, EarnedInv, NEW r \in Reviewers, WriteConfirmed(r)
    PROVE  EarnedInv'
<1>0. PICK c, at, to : c = review[r].candidate /\ at = review[r].at /\ to = review[r].to
  OBVIOUS
<1>1. review[r] \in Reads /\ review[r].pc = "write" /\ c \in Candidates
  BY <1>0, ReadsAreTyped DEF WriteConfirmed, Reads
<1>2. PICK winner \in Sources, loser \in Sources :
          c.pair = {winner, loser} /\ Belongs(winner, to) /\ Belongs(loser, at)
  BY <1>0, <1>1 DEF EarnedInv, ReviewIsEarned
<1>3. home' = home /\ decided \subseteq decided' /\ Confirmed(c.pair)'
  BY <1>0, <1>1 DEF WriteConfirmed, EarnedInv, ReviewIsEarned, Confirmed, Reads
<1>4. /\ \A s \in Sources : \A i : Belongs(s, i) => Belongs(s, i)'
      /\ \A w : ReviewIsEarned(w) => ReviewIsEarned(w)'
  BY <1>3, BelongingStays
<1>5. ASSUME NEW s \in Sources, Belongs(s, at) PROVE Belongs(s, to)'
  <2>1. Tied(s, loser)
    BY <1>2, <1>5, SharedIdsTie
  <2>2. Tied(s, loser)'
    BY <1>3, <2>1, TiesStay
  <2>3. Tied(loser, winner)'
    BY <1>2, <1>3 DEF Tied, IsClosed, Confirmed
  <2>4. Tied(s, winner)'
    BY <2>2, <2>3 DEF Tied
  <2>5. PICK u \in Sources : home'[u] = to /\ Tied(winner, u)'
    BY <1>2, <1>4 DEF Belongs
  <2>6. Tied(s, u)'
    BY <2>4, <2>5 DEF Tied
  <2> QED BY <2>5, <2>6 DEF Belongs
<1>6. HoldsOwnIds(record)'
  <2>1. \A s \in Sources : record'[s] = record[s] \/ (record[s] = at /\ record'[s] = to)
    BY <1>0 DEF WriteConfirmed, Link
  <2>2. at # NoId
    BY <1>0, <1>1, CanonicalAssumption DEF Reads
  <2> QED BY <1>4, <1>5, <2>1, <2>2 DEF EarnedInv, HoldsOwnIds
<1>7. HoldsOwnIds(note)' /\ HoldsOwnIds(indexed)'
  BY <1>4 DEF WriteConfirmed, EarnedInv, HoldsOwnIds
<1>8. \A s \in Sources : into'[home'[s]] # NoId => Belongs(s, into[home[s]])'
  <2>1. \A i \in Ids : into'[i] = into[i] \/ (i = at /\ into'[i] = to)
    BY <1>0 DEF WriteConfirmed, Link, CanonicalInv
  <2>2. \A s \in Sources : home[s] \in Ids
    BY CanonicalAssumption DEF CanonicalInv
  <2>3. ASSUME NEW s \in Sources, into'[home[s]] # NoId PROVE Belongs(s, into[home[s]])'
    <3>1. CASE into'[home[s]] = into[home[s]]
      <4>1. Belongs(s, into[home[s]])
        BY <2>3, <3>1 DEF EarnedInv
      <4>2. PICK i : i = into[home[s]]
        OBVIOUS
      <4>3. Belongs(s, i)'
        BY <1>4, <4>1, <4>2
      <4> QED BY <1>3, <3>1, <4>2, <4>3 DEF Belongs
    <3>2. CASE home[s] = at /\ into'[home[s]] = to
      <4>1. Belongs(s, to)'
        BY <1>5, <3>2, OwnHomeBelongs
      <4> QED BY <1>3, <3>2, <4>1 DEF Belongs
    <3> QED BY <2>1, <2>2, <3>1, <3>2
  <2> QED BY <1>3, <2>3
<1>9. \A d \in Candidates : candidate'[d] = "confirmed_same" => Confirmed(d.pair)'
  BY <1>0, <1>1, <1>3 DEF WriteConfirmed, CanonicalInv, EarnedInv, Confirmed
<1>10. importer'.pc = "continued" => Belongs(importer.source, importer.id)'
  <2>1. importer.pc = "continued" => importer.source \in Sources
    BY DEF CanonicalInv, Imports, IdleImport
  <2> QED BY <1>4, <2>1 DEF WriteConfirmed, EarnedInv
<1>11. ASSUME NEW q \in Reviewers PROVE ReviewIsEarned(review[q])'
  <2>1. CASE q = r
    <3>1. review'[q] = [pc |-> "refresh", pair |-> c.pair, to |-> to]
      BY <1>0, <2>1 DEF WriteConfirmed
    <3>2. Belongs(winner, to)' /\ Belongs(loser, to)'
      BY <1>2, <1>4, <1>5
    <3> QED BY <1>2, <3>1, <3>2 DEF ReviewIsEarned
  <2>2. CASE q # r /\ (Resolving(q) \/ review[q].pc = "write")
    <3>0. PICK v : v = [review[q] EXCEPT !.overtaken = TRUE]
      OBVIOUS
    <3>1. review[q] \in Reads
      BY <2>2, ReadsAreTyped DEF Resolving
    <3>2. /\ v.pc = review[q].pc /\ v.status = review[q].status /\ v.candidate = review[q].candidate
          /\ v.to = review[q].to /\ v.at = review[q].at /\ v.loser = review[q].loser
      BY <3>0, <3>1 DEF Reads
    <3>3. review'[q] = v
      BY <2>2, <3>0 DEF WriteConfirmed
    <3>4. review[q].pc # "refresh" /\ ReviewIsEarned(review[q])
      BY <2>2 DEF EarnedInv, Resolving
    <3>5. ReviewIsEarned(v)
      BY <3>2, <3>4 DEF ReviewIsEarned
    <3>6. ReviewIsEarned(v)'
      BY <1>4, <3>5
    <3> QED BY <3>3, <3>6 DEF ReviewIsEarned
  <2>3. CASE q # r /\ ~(Resolving(q) \/ review[q].pc = "write")
    <3>1. review'[q] = review[q]
      BY <2>3 DEF WriteConfirmed
    <3>2. ReviewIsEarned(review[q])
      BY DEF EarnedInv
    <3> QED BY <1>4, <3>1, <3>2 DEF ReviewIsEarned
  <2> QED BY <2>1, <2>2, <2>3
<1> QED BY <1>6, <1>7, <1>8, <1>9, <1>10, <1>11 DEF EarnedInv

LEMMA StepKeepsEarned ==
    ASSUME CanonicalInv, EarnedInv, [Next]_vars
    PROVE  EarnedInv'
<1>1. ASSUME UNCHANGED <<identity, queue, note, importer>>, HoldsOwnIds(indexed'),
             \A r \in Reviewers : review'[r] \in {review[r], IdleReview}
      PROVE  EarnedInv'
  <2>1. /\ \A s \in Sources : \A i : Belongs(s, i) => Belongs(s, i)'
        /\ \A v : ReviewIsEarned(v) => ReviewIsEarned(v)'
    BY <1>1, BelongingStays DEF identity, queue
  <2>2. HoldsOwnIds(record)' /\ HoldsOwnIds(note)' /\ HoldsOwnIds(indexed)'
    BY <1>1, <2>1 DEF EarnedInv, HoldsOwnIds, identity
  <2>3. \A s \in Sources : into'[home'[s]] # NoId => Belongs(s, into[home[s]])'
    BY <1>1, <2>1 DEF EarnedInv, identity
  <2>4. \A c \in Candidates : candidate'[c] = "confirmed_same" => Confirmed(c.pair)'
    BY <1>1 DEF EarnedInv, Confirmed, queue
  <2>5. importer'.pc = "continued" => Belongs(importer.source, importer.id)'
    <3>1. importer.pc = "continued" => importer.source \in Sources
      BY DEF CanonicalInv, Imports, IdleImport
    <3> QED BY <1>1, <2>1, <3>1 DEF EarnedInv
  <2>6. ASSUME NEW r \in Reviewers PROVE ReviewIsEarned(review[r])'
    <3>1. ReviewIsEarned(review[r]) /\ ReviewIsEarned(IdleReview)
      BY DEF EarnedInv, ReviewIsEarned, IdleReview
    <3>2. ReviewIsEarned(review[r])' \/ review'[r] = IdleReview
      BY <1>1, <2>1, <3>1 DEF ReviewIsEarned
    <3> QED BY <3>2 DEF ReviewIsEarned, IdleReview
  <2> QED BY <2>2, <2>3, <2>4, <2>5, <2>6 DEF EarnedInv
<1>2. CASE Import
  BY <1>2, ImportKeepsEarned
<1>3. ASSUME NEW s \in Sources, IndexFile(s) PROVE EarnedInv'
  <2>1. \A t \in Sources : indexed'[t] = IF t = s THEN note[t] ELSE indexed[t]
    BY <1>3 DEF IndexFile, CanonicalInv
  <2>2. HoldsOwnIds(indexed')
    BY <2>1 DEF EarnedInv, HoldsOwnIds
  <2> QED BY <1>1, <1>3, <2>2 DEF IndexFile
<1>4. ASSUME NEW r \in Reviewers, RefreshIndex(r) PROVE EarnedInv'
  <2>1. \A s \in review[r].pair : Belongs(s, review[r].to)
    BY <1>4 DEF RefreshIndex, EarnedInv, ReviewIsEarned
  <2>2. HoldsOwnIds(indexed')
    BY <1>4, <2>1 DEF RefreshIndex, EarnedInv, HoldsOwnIds
  <2>3. \A q \in Reviewers : review'[q] \in {review[q], IdleReview}
    BY <1>4 DEF RefreshIndex, CanonicalInv
  <2> QED BY <1>1, <1>4, <2>2, <2>3 DEF RefreshIndex
<1>5. ASSUME NEW r \in Reviewers, Review(r), ~RefreshIndex(r) PROVE EarnedInv'
  BY <1>5, ConfirmingKeepsEarned, ReadingKeepsEarned
<1>6. CASE UNCHANGED vars
  <2>1. HoldsOwnIds(indexed')
    BY <1>6 DEF vars, EarnedInv
  <2> QED BY <1>1, <1>6, <2>1 DEF vars
<1> QED BY <1>2, <1>3, <1>4, <1>5, <1>6 DEF Next

\* However stale the index is and however reviewers race, two sources share an
\* id, in the index or elsewhere, only if confirmed pairs and families tie them.
THEOREM CollapsesAreEarned == Spec => []CollapseIsEarned
<1>1. EarnedInv => CollapseIsEarned
  BY SharedIdsTie DEF EarnedInv, HoldsOwnIds, CollapseIsEarned, Collapse
<1>2. CanonicalInv /\ EarnedInv /\ [Next]_vars => EarnedInv'
  BY StepKeepsEarned
<1> QED BY <1>1, <1>2, InitEarned, CanonicalInvariant, PTL DEF Spec

-----------------------------------------------------------------------------
(* A confirmation is not parted again.  What a review read stays so until  *)
(* another commits, and a link moves all records of an id at once.         *)

\* The review v still sees its two records as they are.
IsCurrent(v) ==
    v.pc \in {"winner", "loser", "write"} /\ ~v.overtaken =>
        \E s, t \in Sources :
            /\ v.candidate.pair = {s, t}
            /\ record[s] # NoId /\ record[t] # NoId
            /\ v.loser = record[t]
            /\ v.pc = "winner" /\ IsOnlyBranch(s) => v.at = record[s]
            /\ v.pc \in {"loser", "write"} /\ IsOnlyBranch(s) => v.to = record[s]
            /\ v.pc \in {"loser", "write"} /\ IsOnlyBranch(t) => v.at = record[t]

\* The record of an only branch carries an active id, as nobody can have merged
\* its id away before there was the record.
OnlyBranchesAreActive ==
    /\ \A s \in Sources : IsOnlyBranch(s) /\ record[s] # NoId => into[record[s]] = NoId
    /\ \A s \in Sources : IsOnlyBranch(s) /\ record[s] = NoId => home[s] \notin rows
    /\ importer.pc = "noted" => record[importer.source] = NoId

JoinedAreRecorded == \A p \in joined : \A s \in p : record[s] # NoId

LinkedInv ==
    /\ OnlyBranchesAreActive /\ JoinedAreRecorded /\ ConfirmedAreLinked
    /\ \A r \in Reviewers : IsCurrent(review[r])

\* A step that leaves every record there is as it is.
LEMMA RecordsStay ==
    ASSUME CanonicalInv, LinkedInv, home' = home, joined' = joined, review' = review,
           \A s \in Sources : record[s] # NoId => record'[s] = record[s]
    PROVE  /\ JoinedAreRecorded' /\ ConfirmedAreLinked'
           /\ \A r \in Reviewers : IsCurrent(review[r])'
<1>1. \A p \in joined : \A s \in p : s \in Sources /\ record[s] # NoId /\ record'[s] = record[s]
  BY DEF CanonicalInv, LinkedInv, JoinedAreRecorded, Pairs, kSubset
<1>2. JoinedAreRecorded' /\ ConfirmedAreLinked'
  BY <1>1 DEF JoinedAreRecorded, ConfirmedAreLinked, LinkedInv, IsOnlyBranch
<1>3. ASSUME NEW r \in Reviewers PROVE IsCurrent(review[r])'
  BY DEF LinkedInv, IsCurrent, IsOnlyBranch
<1> QED BY <1>2, <1>3

LEMMA InitLinked == Init => LinkedInv
BY DEF Init, LinkedInv, OnlyBranchesAreActive, JoinedAreRecorded, ConfirmedAreLinked, IsCurrent,
   IdleImport, IdleReview

LEMMA ImportKeepsLinked ==
    ASSUME CanonicalInv, LinkedInv, Import
    PROVE  LinkedInv'
<1>1. UNCHANGED <<home, into, joined, review>>
  BY DEF Import, WriteNew, DecideContinued, WriteContinued, CreateRecord, EnsureCanonical, Detect,
     Upsert, ImportDies, identity, queue
<1>2. CASE CreateRecord
  <2>1. importer \in [pc : {"noted", "recorded", "ensured"}, source : Sources]
    BY <1>2 DEF CreateRecord, CanonicalInv, Imports, IdleImport
  <2>2. importer'.pc = "recorded"
    BY <1>2, <2>1 DEF CreateRecord
  <2>3. \A s \in Sources : record'[s] = IF s = importer.source THEN home[s] ELSE record[s]
    BY <1>2, <2>1 DEF CreateRecord, CanonicalInv
  <2>4. \A s \in Sources : record[s] # NoId => record'[s] = record[s]
    BY <1>2, <2>3 DEF CreateRecord, LinkedInv, OnlyBranchesAreActive
  <2>5. \A s \in Sources : home[s] \in Ids
    BY CanonicalAssumption DEF CanonicalInv
  <2>6. \A s \in Sources : IsOnlyBranch(s) /\ s = importer.source => into[home[s]] = NoId
    BY <1>2, <2>1, <2>5 DEF CreateRecord, LinkedInv, OnlyBranchesAreActive, CanonicalInv
  <2>7. OnlyBranchesAreActive'
    BY <1>1, <1>2, <2>2, <2>3, <2>5, <2>6, CanonicalAssumption
       DEF CreateRecord, LinkedInv, OnlyBranchesAreActive, IsOnlyBranch
  <2> QED BY <1>1, <2>4, <2>7, RecordsStay DEF LinkedInv
<1>3. CASE EnsureCanonical
  <2>1. importer \in [pc : {"noted", "recorded", "ensured"}, source : Sources]
    BY <1>3 DEF EnsureCanonical, CanonicalInv, Imports, IdleImport
  <2>2. importer'.pc = "ensured"
    BY <1>3, <2>1 DEF EnsureCanonical
  <2>3. record[importer.source] # NoId
    BY <1>3, <2>1, CanonicalAssumption DEF EnsureCanonical, CanonicalInv
  <2>4. OnlyBranchesAreActive'
    BY <1>1, <1>3, <2>1, <2>2, <2>3
       DEF EnsureCanonical, LinkedInv, OnlyBranchesAreActive, IsOnlyBranch
  <2> QED BY <1>1, <1>3, <2>4, RecordsStay DEF EnsureCanonical, LinkedInv
<1>4. CASE UNCHANGED <<record, rows>>
  <2>1. importer'.pc = "noted" => record[importer'.source] = NoId
    <3>1. ASSUME NEW s \in Sources, WriteNew(s) PROVE record[importer'.source] = NoId
      BY <3>1 DEF WriteNew
    <3>2. ASSUME NEW s \in Sources, DecideContinued(s) PROVE importer'.pc # "noted"
      BY <3>2 DEF DecideContinued
    <3>3. CASE CreateRecord \/ EnsureCanonical
      <4>1. importer \in [pc : {"noted", "recorded", "ensured"}, source : Sources]
        BY <3>3 DEF CreateRecord, EnsureCanonical, CanonicalInv, Imports, IdleImport
      <4> QED BY <3>3, <4>1 DEF CreateRecord, EnsureCanonical
    <3>4. CASE WriteContinued \/ Detect \/ ImportDies
      BY <3>4 DEF WriteContinued, Detect, ImportDies, Waiting, IdleImport
    <3>5. ASSUME NEW c \in Candidates, Upsert(c) PROVE importer'.pc # "noted"
      BY <3>5 DEF Upsert, Waiting, IdleImport
    <3> QED BY <3>1, <3>2, <3>3, <3>4, <3>5 DEF Import
  <2>2. OnlyBranchesAreActive'
    BY <1>1, <1>4, <2>1 DEF LinkedInv, OnlyBranchesAreActive, IsOnlyBranch
  <2> QED BY <1>1, <1>4, <2>2, RecordsStay DEF LinkedInv
<1> QED BY <1>2, <1>3, <1>4 DEF Import, WriteNew, DecideContinued, WriteContinued, Detect,
    Upsert, ImportDies, identity

\* Steps of one review that write no record.
LEMMA OneReviewReads ==
    ASSUME CanonicalInv, LinkedInv, NEW r \in Reviewers, NEW v, review' = [review EXCEPT ![r] = v],
           UNCHANGED <<identity, joined, importer>>, IsCurrent(v)
    PROVE  LinkedInv'
<1>1. \A q \in Reviewers : review'[q] = IF q = r THEN v ELSE review[q]
  BY DEF CanonicalInv
<1>2. ASSUME NEW q \in Reviewers PROVE IsCurrent(review[q])'
  <2>1. PICK w : w = review'[q] /\ IsCurrent(w)
    BY <1>1 DEF LinkedInv
  <2> QED BY <2>1 DEF IsCurrent, IsOnlyBranch, identity
<1>3. OnlyBranchesAreActive' /\ JoinedAreRecorded' /\ ConfirmedAreLinked'
  BY DEF LinkedInv, OnlyBranchesAreActive, JoinedAreRecorded, ConfirmedAreLinked, IsOnlyBranch, identity
<1> QED BY <1>2, <1>3 DEF LinkedInv

LEMMA ReadingKeepsLinked ==
    ASSUME CanonicalInv, LinkedInv, NEW r \in Reviewers, Review(r), ~WriteConfirmed(r)
    PROVE  LinkedInv'
<1>a. IsCurrent(IdleReview)
  BY DEF IsCurrent, IdleReview
<1>b. IsCurrent(review[r])
  BY DEF LinkedInv
<1>1. ASSUME NEW c \in Candidates, ReadToReject(r, c) PROVE LinkedInv'
  <2>1. IsCurrent([pc |-> "reject", candidate |-> c])
    BY DEF IsCurrent
  <2> QED BY <1>1, <2>1, OneReviewReads DEF ReadToReject, queue
<1>2. ASSUME NEW c \in Candidates, NEW s \in Sources, NEW t \in Sources, ReadToConfirm(r, c, s, t)
      PROVE  LinkedInv'
  <2> DEFINE v == [pc |-> "winner", candidate |-> c, status |-> candidate[c],
            at |-> record[s], seen |-> {}, to |-> NoId,
            loser |-> record[t], overtaken |-> FALSE]
  <2>1. IsCurrent(v)
    BY <1>2 DEF ReadToConfirm, IsCurrent
  <2> QED BY <1>2, <2>1, OneReviewReads DEF ReadToConfirm, queue
<1>3. CASE WriteRejected(r)
  BY <1>3, <1>a, OneReviewReads DEF WriteRejected
<1>4. CASE FollowMerged(r)
  <2> DEFINE v == [review[r] EXCEPT !.at = into[review[r].at], !.seen = @ \cup {review[r].at}]
  <2>1. review[r] \in Reads /\ review[r].pc \in {"winner", "loser"} /\ into[review[r].at] # NoId
    BY <1>4, ReadsAreTyped DEF FollowMerged, Resolving
  <2>2. /\ v.pc = review[r].pc /\ v.candidate = review[r].candidate /\ v.overtaken = review[r].overtaken
        /\ v.to = review[r].to /\ v.loser = review[r].loser
    BY <2>1 DEF Reads
  <2>3. review' = [review EXCEPT ![r] = v]
    BY <1>4 DEF FollowMerged, CanonicalInv
  <2> HIDE DEF v
  <2>4. IsCurrent(v)
    BY <1>b, <2>1, <2>2 DEF IsCurrent, LinkedInv, OnlyBranchesAreActive
  <2> QED BY <1>4, <2>3, <2>4, OneReviewReads DEF FollowMerged, queue
<1>5. CASE ResolvedWinner(r)
  <2> DEFINE v == [review[r] EXCEPT !.pc = "loser", !.to = review[r].at, !.at = review[r].loser, !.seen = {}]
  <2>1. review[r] \in Reads /\ review[r].pc = "winner"
    BY <1>5, ReadsAreTyped DEF ResolvedWinner
  <2>2. /\ v.pc = "loser" /\ v.candidate = review[r].candidate /\ v.overtaken = review[r].overtaken
        /\ v.to = review[r].at /\ v.at = review[r].loser /\ v.loser = review[r].loser
    BY <2>1 DEF Reads
  <2>3. review' = [review EXCEPT ![r] = v]
    BY <1>5 DEF ResolvedWinner, CanonicalInv
  <2> HIDE DEF v
  <2>4. IsCurrent(v)
    BY <1>b, <2>1, <2>2 DEF IsCurrent
  <2> QED BY <1>5, <2>3, <2>4, OneReviewReads DEF ResolvedWinner, queue
<1>6. CASE ResolvedLoser(r)
  <2> DEFINE v == [review[r] EXCEPT !.pc = "write"]
  <2>1. review[r] \in Reads /\ review[r].pc = "loser"
    BY <1>6, ReadsAreTyped DEF ResolvedLoser
  <2>2. /\ v.pc = "write" /\ v.candidate = review[r].candidate /\ v.overtaken = review[r].overtaken
        /\ v.to = review[r].to /\ v.at = review[r].at /\ v.loser = review[r].loser
    BY <2>1 DEF Reads
  <2>3. review' = [review EXCEPT ![r] = v]
    BY <1>6 DEF ResolvedLoser, CanonicalInv
  <2> HIDE DEF v
  <2>4. IsCurrent(v)
    BY <1>b, <2>1, <2>2 DEF IsCurrent
  <2> QED BY <1>6, <2>3, <2>4, OneReviewReads DEF ResolvedLoser, queue
<1>7. CASE Unresolved(r) \/ RollBack(r) \/ RefreshIndex(r) \/ ReviewDies(r)
  BY <1>7, <1>a, OneReviewReads DEF Unresolved, RollBack, RefreshIndex, ReviewDies, queue
<1> QED BY <1>1, <1>2, <1>3, <1>4, <1>5, <1>6, <1>7 DEF Review

\* The transaction moves every record of the loser's id to the winner's, so the
\* pairs joined before stay joined, and the pair of a review whose reads still
\* hold is joined too.
LEMMA ConfirmingKeepsLinked ==
    ASSUME CanonicalInv, LinkedInv, NEW r \in Reviewers, WriteConfirmed(r)
    PROVE  LinkedInv'
<1>0. PICK at, to : at = review[r].at /\ to = review[r].to
  OBVIOUS
<1>1. /\ review[r] \in Reads /\ review[r].pc = "write"
      /\ at \in rows /\ at \in Ids /\ to \in rows /\ to \in Ids /\ into[to] = NoId
      /\ at # NoId /\ to # NoId
  BY <1>0, ReadsAreTyped, CanonicalAssumption DEF WriteConfirmed, StaysActive, CanonicalInv
<1>2. \A s \in Sources : record'[s] = IF record[s] = at THEN to ELSE record[s]
  BY <1>0 DEF WriteConfirmed, Link, CanonicalInv
<1>3. \A i \in Ids : into'[i] = IF i = at /\ at # to THEN to ELSE into[i]
  BY <1>0 DEF WriteConfirmed, Link, CanonicalInv
<1>4. UNCHANGED <<home, rows, importer>>
  BY DEF WriteConfirmed
<1>5. OnlyBranchesAreActive'
  <2>1. \A s \in Sources : IsOnlyBranch(s)' <=> IsOnlyBranch(s)
    BY <1>4 DEF IsOnlyBranch
  <2>2. \A s \in Sources : IsOnlyBranch(s) /\ record'[s] # NoId => into'[record'[s]] = NoId
    <3> SUFFICES ASSUME NEW s \in Sources, IsOnlyBranch(s), record'[s] # NoId
                 PROVE  into'[record'[s]] = NoId
      OBVIOUS
    <3>1. record[s] \in AnId /\ (record[s] # NoId => into[record[s]] = NoId)
      BY DEF CanonicalInv, LinkedInv, OnlyBranchesAreActive
    <3> QED BY <1>1, <1>2, <1>3, <3>1 DEF AnId
  <2>3. \A s \in Sources : IsOnlyBranch(s) /\ record'[s] = NoId => home[s] \notin rows
    BY <1>1, <1>2 DEF LinkedInv, OnlyBranchesAreActive
  <2>4. importer.pc = "noted" => importer.source \in Sources
    BY DEF CanonicalInv, Imports, IdleImport
  <2>5. importer.pc = "noted" => record'[importer.source] = NoId
    BY <1>1, <1>2, <2>4 DEF LinkedInv, OnlyBranchesAreActive
  <2> QED BY <1>4, <2>1, <2>2, <2>3, <2>5 DEF OnlyBranchesAreActive
<1>6. \A p \in joined' : p \in joined \/ (~review[r].overtaken /\ p = review[r].candidate.pair)
  BY DEF WriteConfirmed
<1>7. \A p \in joined : \A s \in p : s \in Sources
  BY DEF CanonicalInv, Pairs, kSubset
<1>8. ASSUME ~review[r].overtaken
      PROVE  \E s, t \in Sources :
                 /\ review[r].candidate.pair = {s, t}
                 /\ record[s] # NoId /\ record[t] # NoId
                 /\ IsOnlyBranch(s) => to = record[s]
                 /\ IsOnlyBranch(t) => at = record[t]
  BY <1>0, <1>1, <1>8 DEF LinkedInv, IsCurrent
<1>9. ASSUME NEW p \in joined', \A s \in p : IsOnlyBranch(s)'
      PROVE  \A s, t \in p : record'[s] = record'[t]
  <2>1. \A s \in p : IsOnlyBranch(s)
    BY <1>4, <1>9 DEF IsOnlyBranch
  <2>2. CASE p \in joined
    BY <1>2, <1>7, <2>1, <2>2 DEF LinkedInv, ConfirmedAreLinked
  <2>3. CASE ~review[r].overtaken /\ p = review[r].candidate.pair
    BY <1>2, <1>8, <2>1, <2>3
  <2> QED BY <1>6, <2>2, <2>3
<1>10. ASSUME NEW p \in joined', NEW s \in p PROVE record'[s] # NoId
  <2>1. CASE p \in joined
    BY <1>1, <1>2, <1>7, <2>1 DEF LinkedInv, JoinedAreRecorded
  <2>2. CASE ~review[r].overtaken /\ p = review[r].candidate.pair
    BY <1>1, <1>2, <1>8, <2>2
  <2> QED BY <1>6, <2>1, <2>2
<1>11. ASSUME NEW q \in Reviewers PROVE IsCurrent(review[q])'
  <2>1. CASE review'[q].pc \notin {"winner", "loser", "write"}
    BY <2>1 DEF IsCurrent
  <2>2. CASE q = r
    BY <2>2 DEF WriteConfirmed, IsCurrent
  <2>3. CASE q # r /\ (Resolving(q) \/ review[q].pc = "write")
    <3>1. review[q] \in Reads
      BY <2>3, ReadsAreTyped DEF Resolving
    <3>2. review'[q] = [review[q] EXCEPT !.overtaken = TRUE]
      BY <2>3 DEF WriteConfirmed
    <3>3. review'[q].overtaken
      BY <3>1, <3>2 DEF Reads
    <3> QED BY <3>3 DEF IsCurrent
  <2>4. CASE q # r /\ ~Resolving(q) /\ review[q].pc # "write"
    <3>1. review'[q] = review[q]
      BY <2>4 DEF WriteConfirmed
    <3> QED BY <2>4, <3>1 DEF IsCurrent, Resolving
  <2> QED BY <2>1, <2>2, <2>3, <2>4
<1> QED BY <1>5, <1>9, <1>10, <1>11 DEF LinkedInv, JoinedAreRecorded, ConfirmedAreLinked

\* For any sources, families, evidence and reviewers: what a reviewer confirmed
\* carries one canonical id for ever, however many link it on, where no other
\* commit fell into the review and neither is one of several branches.
THEOREM ConfirmedStayLinked == Spec => []ConfirmedAreLinked
<1>1. CanonicalInv /\ LinkedInv /\ [Next]_vars => LinkedInv'
  <2> SUFFICES ASSUME CanonicalInv, LinkedInv, [Next]_vars PROVE LinkedInv'
    OBVIOUS
  <2>1. CASE Import
    BY <2>1, ImportKeepsLinked
  <2>2. CASE UNCHANGED <<identity, joined, importer, review>>
    BY <2>2 DEF LinkedInv, OnlyBranchesAreActive, JoinedAreRecorded, ConfirmedAreLinked, IsCurrent,
       IsOnlyBranch, identity
  <2>3. ASSUME NEW r \in Reviewers, Review(r) PROVE LinkedInv'
    BY <2>3, ReadingKeepsLinked, ConfirmingKeepsLinked
  <2> QED BY <2>1, <2>2, <2>3 DEF Next, IndexFile, vars, queue
<1>2. LinkedInv => ConfirmedAreLinked
  BY DEF LinkedInv
<1> QED BY <1>1, <1>2, InitLinked, CanonicalInvariant, PTL DEF Spec

=============================================================================
