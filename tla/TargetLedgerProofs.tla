------------------------- MODULE TargetLedgerProofs -------------------------
(* The event stream of the abstract ledger, proved for any targets,        *)
(* contents and buckets.                                                   *)
EXTENDS TargetLedger, TLAPS

(* A row is absent exactly while it is at generation 0.                    *)
AbsentIsZero ==
    \A t \in Targets : current[t].status = "absent" <=> current[t].generation = 0

LedgerInv ==
    /\ LedgerTypeOK
    /\ AbsentIsZero
    /\ OneEventPerGeneration
    /\ LatestEventDescribesRow
    /\ NewTargetFollowsRemoval
    /\ CoverageFenced

(***************************************************************************)
(* The ledger starts with no row and no event.                             *)
(***************************************************************************)
LEMMA LedgerInitInv == LedgerInit => LedgerInv
<1> SUFFICES ASSUME LedgerInit PROVE LedgerInv
  OBVIOUS
<1>1. LedgerTypeOK
  BY DEF LedgerInit, LedgerTypeOK, Entry, NoEntry
<1>2. AbsentIsZero
  BY DEF LedgerInit, AbsentIsZero, NoEntry
<1>3. OneEventPerGeneration
  <2>1. \A t \in Targets : LedgerEvents(t) = {} /\ current[t].generation = 0
    BY DEF LedgerInit, LedgerEvents, NoEntry
  <2>2. \A n \in Nat : n \notin 1 .. 0
    OBVIOUS
  <2>3. \A t \in Targets : \A g \in 1 .. current[t].generation : FALSE
    BY <2>1, <2>2
  <2> QED BY <2>1, <2>3, Zenon DEF OneEventPerGeneration
<1>4. LatestEventDescribesRow /\ NewTargetFollowsRemoval /\ CoverageFenced
  BY DEF LedgerInit, LatestEventDescribesRow, NewTargetFollowsRemoval,
         CoverageFenced, LedgerEvents, CoverageEvents
<1> QED
  BY <1>1, <1>2, <1>3, <1>4 DEF LedgerInv

(***************************************************************************)
(* Opening the next generation keeps the stream well formed, provided that *)
(* new_target is announced over a row that is not active and only there,   *)
(* and a tombstone is announced exactly with the status removed.           *)
(***************************************************************************)
LEMMA AnnounceInv ==
    ASSUME LedgerInv, NEW t \in Targets, NEW status \in {"active", "removed"},
           NEW content \in Contents \cup {NoContent}, NEW reason \in LedgerReasons,
           reason = "new_target" <=> current[t].status # "active",
           reason = "removed" <=> status = "removed",
           Announce(t, status, content, reason)
    PROVE  LedgerInv'
<1> DEFINE g == current[t].generation + 1
           new == [target |-> t, generation |-> g, content |-> content,
                   reason |-> reason, bucket |-> NoBucket]
<1>0. /\ current' = [current EXCEPT ![t] = [generation |-> g, status |-> status,
                                            content |-> content]]
      /\ published' = published \cup {new}
  BY DEF Announce
<1>1. g \in Nat \ {0} /\ current[t].generation \in Nat /\ current[t] \in Entry
  BY DEF LedgerInv, LedgerTypeOK, Entry
<1>2. new \in Event
  BY <1>1 DEF Event
<1>3. LedgerTypeOK'
  BY <1>0, <1>1, <1>2 DEF LedgerInv, LedgerTypeOK, Entry
<1>4. AbsentIsZero'
  BY <1>0, <1>1 DEF LedgerInv, LedgerTypeOK, AbsentIsZero
<1>5. LedgerEvents(t)' = LedgerEvents(t) \cup {new}
  BY <1>0 DEF LedgerEvents, LedgerReasons
<1>6. \A u \in Targets \ {t} :
         /\ LedgerEvents(u)' = LedgerEvents(u)
         /\ current'[u] = current[u]
  BY <1>0 DEF LedgerEvents, LedgerInv, LedgerTypeOK
<1>7. \A u \in Targets : CoverageEvents(u)' = CoverageEvents(u)
  BY <1>0 DEF CoverageEvents, LedgerReasons
<1>8. current'[t].generation = g /\ current'[t].status = status
      /\ current'[t].content = content
  BY <1>0 DEF LedgerInv, LedgerTypeOK
<1>9. \A e \in LedgerEvents(t) : e.generation \in 1 .. current[t].generation
  BY DEF LedgerInv, OneEventPerGeneration
<1>10. OneEventPerGeneration'
  <2> SUFFICES ASSUME NEW u \in Targets
               PROVE  /\ \A e \in LedgerEvents(u)' : e.generation \in 1 .. current'[u].generation
                      /\ \A h \in 1 .. current'[u].generation :
                            \E e \in LedgerEvents(u)' : e.generation = h
                      /\ \A e, f \in LedgerEvents(u)' :
                            e.generation = f.generation => e = f
    BY DEF OneEventPerGeneration
  <2>1. CASE u # t
    BY <2>1, <1>6 DEF LedgerInv, OneEventPerGeneration
  <2>2. CASE u = t
    <3>1. \A e \in LedgerEvents(t)' : e.generation \in 1 .. current'[t].generation
      BY <1>1, <1>5, <1>8, <1>9
    <3>2. \A h \in 1 .. current'[t].generation :
             \E e \in LedgerEvents(t)' : e.generation = h
      <4> SUFFICES ASSUME NEW h \in 1 .. g
                   PROVE  \E e \in LedgerEvents(t)' : e.generation = h
        BY <1>8
      <4>1. CASE h = g
        <5>1. new \in LedgerEvents(t)' /\ new.generation = h
          BY <4>1, <1>5
        <5> HIDE DEF new
        <5> QED BY <5>1
      <4>2. CASE h # g
        <5>1. h \in 1 .. current[t].generation
          BY <4>2, <1>1
        <5> QED BY <5>1, <1>5 DEF LedgerInv, OneEventPerGeneration
      <4> QED BY <4>1, <4>2
    <3>3. \A e \in LedgerEvents(t) : e.generation # g
      BY <1>1, <1>9
    <3>4. \A e, f \in LedgerEvents(t)' : e.generation = f.generation => e = f
      BY <3>3, <1>5 DEF LedgerInv, OneEventPerGeneration
    <3> QED BY <2>2, <3>1, <3>2, <3>4
  <2> QED BY <2>1, <2>2
<1>11. LatestEventDescribesRow'
  <2> SUFFICES ASSUME NEW u \in Targets, NEW e \in LedgerEvents(u)',
                      e.generation = current'[u].generation
               PROVE  /\ e.content = current'[u].content
                      /\ (e.reason = "removed") <=> (current'[u].status = "removed")
                      /\ current'[u].status # "absent"
    BY DEF LatestEventDescribesRow
  <2>1. CASE u # t
    BY <2>1, <1>6 DEF LedgerInv, LatestEventDescribesRow
  <2>2. CASE u = t
    <3>1. e = new
      BY <2>2, <1>1, <1>5, <1>8, <1>9
    <3> QED BY <3>1, <2>2, <1>8
  <2> QED BY <2>1, <2>2
<1>12. NewTargetFollowsRemoval'
  <2> SUFFICES ASSUME NEW u \in Targets, NEW e \in LedgerEvents(u)',
                      NEW f \in LedgerEvents(u)'
               PROVE  /\ e.generation = 1 => e.reason = "new_target"
                      /\ f.generation = e.generation + 1 =>
                            (e.reason = "removed" <=> f.reason = "new_target")
    BY DEF NewTargetFollowsRemoval
  <2>1. CASE u # t
    BY <2>1, <1>6 DEF LedgerInv, NewTargetFollowsRemoval
  <2>2. CASE u = t /\ e \in LedgerEvents(t) /\ f \in LedgerEvents(t)
    BY <2>2 DEF LedgerInv, NewTargetFollowsRemoval
  <2>3. CASE u = t /\ e = new
    <3>1. f.generation # e.generation + 1
      BY <2>3, <1>1, <1>5, <1>9
    <3>2. e.generation = 1 => e.reason = "new_target"
      BY <2>3, <1>1 DEF LedgerInv, AbsentIsZero
    <3> QED BY <3>1, <3>2
  <2>4. CASE u = t /\ e \in LedgerEvents(t) /\ f = new
    <3>1. e.generation = 1 => e.reason = "new_target"
      BY <2>4 DEF LedgerInv, NewTargetFollowsRemoval
    <3>2. ASSUME f.generation = e.generation + 1
          PROVE  e.reason = "removed" <=> f.reason = "new_target"
      <4>1. e.generation = current[t].generation
        BY <3>2, <2>4, <1>1, <1>9
      <4>2. /\ e.reason = "removed" <=> current[t].status = "removed"
            /\ current[t].status # "absent"
        BY <4>1, <2>4 DEF LedgerInv, LatestEventDescribesRow
      <4>3. current[t].status \in {"absent", "active", "removed"}
        BY <1>1 DEF Entry
      <4> QED BY <4>2, <4>3, <2>4
    <3> QED BY <3>1, <3>2
  <2> QED BY <2>1, <2>2, <2>3, <2>4, <1>5
<1>13. CoverageFenced'
  <2> SUFFICES ASSUME NEW u \in Targets, NEW e \in CoverageEvents(u)'
               PROVE  /\ e.generation <= current'[u].generation
                      /\ \A f \in LedgerEvents(u)' : f.generation = e.generation =>
                            f.reason # "removed" /\ f.content = e.content
    BY DEF CoverageFenced
  <2>1. e \in CoverageEvents(u)
    BY <1>7
  <2>2. CASE u # t
    BY <2>1, <2>2, <1>6 DEF LedgerInv, CoverageFenced
  <2>3. CASE u = t
    <3>1. e.generation <= current[t].generation /\ e.generation \in Nat
      BY <2>1, <2>3 DEF LedgerInv, CoverageFenced, LedgerTypeOK, CoverageEvents, Event
    <3>2. e.generation < g
      BY <3>1, <1>1
    <3> QED BY <3>2, <3>1, <2>1, <2>3, <1>1, <1>5, <1>8 DEF LedgerInv, CoverageFenced
  <2> QED BY <2>2, <2>3
<1> QED BY <1>3, <1>4, <1>10, <1>11, <1>12, <1>13 DEF LedgerInv

(***************************************************************************)
(* A coverage rescan of the active generation keeps it well formed too.    *)
(***************************************************************************)
LEMMA CoverInv ==
    ASSUME LedgerInv, NEW t \in Targets, NEW b \in Buckets, Cover(t, b)
    PROVE  LedgerInv'
<1> DEFINE new == [target |-> t, generation |-> current[t].generation,
                   content |-> current[t].content, reason |-> "coverage",
                   bucket |-> b]
<1>0. current' = current /\ published' = published \cup {new}
  BY DEF Cover
<1>1. current[t] \in Entry /\ current[t].status = "active"
      /\ current[t].generation \in Nat \ {0}
  BY DEF Cover, LedgerInv, LedgerTypeOK, AbsentIsZero, Entry
<1>2. new \in Event
  BY <1>1 DEF Event, Entry
<1>3. LedgerTypeOK' /\ AbsentIsZero'
  BY <1>0, <1>2 DEF LedgerInv, LedgerTypeOK, AbsentIsZero
<1>4. \A u \in Targets : LedgerEvents(u)' = LedgerEvents(u)
  BY <1>0 DEF LedgerEvents, LedgerReasons
<1>5. OneEventPerGeneration' /\ LatestEventDescribesRow' /\ NewTargetFollowsRemoval'
  BY <1>0, <1>4 DEF LedgerInv, OneEventPerGeneration, LatestEventDescribesRow,
                    NewTargetFollowsRemoval
<1>6. CoverageFenced'
  <2> SUFFICES ASSUME NEW u \in Targets, NEW e \in CoverageEvents(u)'
               PROVE  /\ e.generation <= current[u].generation
                      /\ \A f \in LedgerEvents(u) : f.generation = e.generation =>
                            f.reason # "removed" /\ f.content = e.content
    BY <1>0, <1>4 DEF CoverageFenced
  <2>1. CASE e \in CoverageEvents(u)
    BY <2>1 DEF LedgerInv, CoverageFenced
  <2>2. CASE e = new /\ u = t
    BY <2>2, <1>1 DEF LedgerInv, LatestEventDescribesRow
  <2>3. e \in CoverageEvents(u) \/ (e = new /\ u = t)
    BY <1>0 DEF CoverageEvents
  <2> QED BY <2>1, <2>2, <2>3
<1> QED BY <1>3, <1>5, <1>6 DEF LedgerInv

(***************************************************************************)
(* Every step of the ledger preserves the invariant.                       *)
(***************************************************************************)
LEMMA LedgerNextInv == LedgerInv /\ [LedgerNext]_ledgerVars => LedgerInv'
<1> SUFFICES ASSUME LedgerInv, [LedgerNext]_ledgerVars PROVE LedgerInv'
  OBVIOUS
<1>1. ASSUME NEW t \in Targets, NEW c \in Contents, Activate(t, c) PROVE LedgerInv'
  BY <1>1, AnnounceInv DEF Activate, LedgerReasons
<1>2. ASSUME NEW t \in Targets, NEW c \in Contents, NEW r \in LedgerReasons,
             Change(t, c, r)
      PROVE  LedgerInv'
  BY <1>2, AnnounceInv DEF Change, LedgerReasons
<1>3. ASSUME NEW t \in Targets, Retire(t) PROVE LedgerInv'
  <2>1. current[t].content \in Contents \cup {NoContent}
    BY DEF LedgerInv, LedgerTypeOK, Entry
  <2> QED BY <1>3, <2>1, AnnounceInv DEF Retire, LedgerReasons
<1>4. ASSUME NEW t \in Targets, NEW b \in Buckets, Cover(t, b) PROVE LedgerInv'
  BY <1>4, CoverInv
<1>5. CASE UNCHANGED ledgerVars
  BY <1>5 DEF ledgerVars, LedgerInv, LedgerTypeOK, AbsentIsZero, OneEventPerGeneration,
     LatestEventDescribesRow, NewTargetFollowsRemoval, CoverageFenced,
     LedgerEvents, CoverageEvents
<1> QED BY <1>1, <1>2, <1>3, <1>4, <1>5 DEF LedgerNext

(***************************************************************************)
(* One event per generation, new_target exactly after tombstones, coverage *)
(* never for a tombstone: in every behaviour of the ledger.                *)
(***************************************************************************)
THEOREM LedgerCorrect == LedgerSpec => []LedgerInv
BY LedgerInitInv, LedgerNextInv, PTL DEF LedgerSpec
=============================================================================
