-------------------------- MODULE ToolLock_proofs --------------------------
(***************************************************************************)
(* Proofs about module ToolLock, for any number of proxies, operators,     *)
(* servers, tools and versions.                                            *)
(***************************************************************************)
EXTENDS ToolLock, SequenceTheorems, TLAPS

(* What the edits of a fingerprint return. *)

LEMMA AbsentType == Absent \in Fingerprint
BY DEF Absent, Fingerprint, Hashes

LEMMA FirstPinEdit ==
    ASSUME NEW v \in Versions
    PROVE  /\ FirstPin(v) \in Fingerprint /\ WellFormed(FirstPin(v))
           /\ FirstPin(v).hash = v /\ FirstPin(v).pending = None
BY ToolLockAssumption DEF FirstPin, Absent, WellFormed, Fingerprint, Hashes

LEMMA StillBaselineEdit ==
    ASSUME NEW fp \in Fingerprint, WellFormed(fp), fp.hash # None
    PROVE  /\ StillBaseline(fp) \in Fingerprint /\ WellFormed(StillBaseline(fp))
           /\ StillBaseline(fp).hash = fp.hash /\ StillBaseline(fp).pending = None
BY ToolLockAssumption DEF StillBaseline, ClearPending, WellFormed, Fingerprint, Hashes

LEMMA ChangedToEdit ==
    ASSUME NEW fp \in Fingerprint, WellFormed(fp), NEW v \in Versions, fp.hash \notin {None, v}
    PROVE  /\ ChangedTo(fp, v) \in Fingerprint /\ WellFormed(ChangedTo(fp, v))
           /\ ChangedTo(fp, v).hash = fp.hash /\ ChangedTo(fp, v).pending = v
<1>1. CASE fp.pending = v
  BY <1>1, ToolLockAssumption DEF ChangedTo, WellFormed
<1>2. CASE fp.pending # v
  <2>1. ChangedTo(fp, v) = [fp EXCEPT !.pending = v, !.pendingSnap = v, !.changes = @ + 1]
    BY <1>2 DEF ChangedTo
  <2>2. /\ ChangedTo(fp, v) \in Fingerprint
        /\ ChangedTo(fp, v).hash = fp.hash /\ ChangedTo(fp, v).snap = fp.snap
        /\ ChangedTo(fp, v).pending = v /\ ChangedTo(fp, v).pendingSnap = v
        /\ ChangedTo(fp, v).changes > 0
    <3>1. fp.changes + 1 \in Nat /\ fp.changes + 1 > 0 /\ fp.hash \in Hashes /\ fp.snap \in Hashes /\ v \in Hashes
      BY DEF Fingerprint, Hashes
    <3>2. ChangedTo(fp, v) = [hash |-> fp.hash, snap |-> fp.snap, pending |-> v,
                              pendingSnap |-> v, changes |-> fp.changes + 1]
      BY <2>1 DEF Fingerprint
    <3> QED BY <3>1, <3>2 DEF Fingerprint
  <2> QED BY <2>2, ToolLockAssumption DEF WellFormed
<1> QED BY <1>1, <1>2

LEMMA ApprovedEdit ==
    ASSUME NEW fp \in Fingerprint, WellFormed(fp), fp.pending # None
    PROVE  /\ Approved(fp) \in Fingerprint /\ WellFormed(Approved(fp))
           /\ Approved(fp).hash = fp.pending /\ Approved(fp).pending = None
BY ToolLockAssumption DEF Approved, ClearPending, WellFormed, Fingerprint, Hashes

-----------------------------------------------------------------------------
(* What is true of every fingerprint on disk and in every copy. The three  *)
(* properties are proved together: an approval accepts what is pending, so *)
(* where baselines come from depends on where pending versions come from.  *)
Sound(k, fp) ==
    /\ fp \in Fingerprint
    /\ WellFormed(fp)
    /\ \A v \in {fp.hash, fp.pending} \ {None} : <<k, v>> \in advertised
    /\ fp.hash # None => <<k, fp.hash>> \in accepted

SoundInv ==
    /\ file \in Store
    /\ copy \in [Processes -> Store]
    /\ todo \in [Proxies -> Seq(Tools \X Versions)]
    /\ \A p \in Proxies : \A i \in DOMAIN todo[p] :
          <<KeyOf(p, todo[p][i][1]), todo[p][i][2]>> \in advertised
    /\ \A k \in Keys : Sound(k, file[k])
    /\ \A q \in Processes : \A k \in Keys : Sound(k, copy[q][k])

LEMMA SoundInit == Init => SoundInv
<1> SUFFICES ASSUME Init PROVE SoundInv
  OBVIOUS
<1>1. ASSUME NEW k \in Keys PROVE Sound(k, file[k])
  <2>1. file[k] = [Absent EXCEPT !.hash = Legacy[k]]
    BY <1>1 DEF Init
  <2>2. Legacy[k] \in Hashes
    BY ToolLockAssumption DEF Hashes
  <2>3. /\ file[k] \in Fingerprint /\ file[k].hash = Legacy[k] /\ file[k].pending = None
        /\ WellFormed(file[k])
    BY <2>1, <2>2, ToolLockAssumption DEF Absent, Fingerprint, WellFormed, Hashes
  <2>4. Legacy[k] # None => <<k, Legacy[k]>> \in advertised /\ <<k, Legacy[k]>> \in accepted
    BY DEF Init
  <2> QED BY <2>3, <2>4 DEF Sound
<1>2. file \in Store
  BY <1>1 DEF Init, Store, Sound
<1>3. \A p \in Proxies : todo[p] = <<>>
  BY DEF Init
<1>4. copy = [q \in Processes |-> file] /\ todo = [p \in Proxies |-> <<>>]
  BY DEF Init
<1> QED BY <1>1, <1>2, <1>3, <1>4 DEF SoundInv

(* The history only grows, so what is sound stays sound. *)
LEMMA SoundStays ==
    ASSUME advertised \subseteq advertised', accepted \subseteq accepted',
           NEW k, NEW fp, Sound(k, fp)
    PROVE  Sound(k, fp)'
BY DEF Sound

LEMMA SoundTool ==
    ASSUME SoundInv, NEW p \in Proxies, InspectTool(p)
    PROVE  SoundInv'
<1> USE DEF SoundInv
<1>1. PICK k \in Keys, v \in Versions :
        AtTool(p, k, v) /\ (FirstSeen(p, k, v) \/ Unchanged(p, k, v) \/ Changed(p, k, v))
  BY DEF InspectTool
<1>2. p \in Processes /\ copy[p] \in Store /\ todo[p] \in Seq(Tools \X Versions) /\ todo[p] # <<>>
  BY <1>1 DEF Processes, AtTool
<1>3. <<k, v>> \in advertised
  <2>1. 1 \in DOMAIN todo[p] /\ Head(todo[p]) = todo[p][1]
    BY <1>2
  <2> QED BY <1>1, <2>1 DEF AtTool
<1>4. copy[p][k] \in Fingerprint /\ Sound(k, copy[p][k])
  BY <1>2 DEF Store
<1>5. PICK fp : /\ copy' = [copy EXCEPT ![p] = [copy[p] EXCEPT ![k] = fp]]
                /\ fp \in Fingerprint /\ WellFormed(fp)
                /\ fp.hash \in {v, copy[p][k].hash} /\ fp.pending \in {None, v}
                /\ fp.hash # None => <<k, fp.hash>> \in accepted'
                /\ accepted \subseteq accepted'
  <2>1. CASE FirstSeen(p, k, v)
    BY <2>1, <1>4, FirstPinEdit DEF FirstSeen, Sound
  <2>2. CASE Unchanged(p, k, v)
    <3>1. copy[p][k].hash = v /\ v # None
      BY <2>2, ToolLockAssumption DEF Unchanged
    <3>2. copy' = [copy EXCEPT ![p] = [copy[p] EXCEPT ![k] = StillBaseline(copy[p][k])]]
      BY <2>2 DEF Unchanged
    <3>3. accepted' = accepted
      BY <2>2 DEF Unchanged
    <3> QED BY <3>1, <3>2, <3>3, <1>4, StillBaselineEdit DEF Sound
  <2>3. CASE Changed(p, k, v)
    <3>1. copy[p][k].hash \notin {None, v}
      BY <2>3 DEF Changed
    <3>2. copy' = [copy EXCEPT ![p] = [copy[p] EXCEPT ![k] = ChangedTo(copy[p][k], v)]]
      BY <2>3 DEF Changed
    <3>3. accepted' = accepted
      BY <2>3 DEF Changed
    <3> QED BY <3>1, <3>2, <3>3, <1>4, ChangedToEdit DEF Sound
  <2> QED BY <1>1, <2>1, <2>2, <2>3
<1>6. advertised' = advertised /\ file' = file
  BY <1>1 DEF AtTool
<1>7. Sound(k, fp)'
  BY <1>3, <1>4, <1>5, <1>6 DEF Sound
<1>8. copy' \in [Processes -> Store]
  BY <1>2, <1>5 DEF Store
<1>9. ASSUME NEW q \in Processes, NEW j \in Keys PROVE Sound(j, copy[q][j])'
  <2>1. CASE q = p /\ j = k
    <3>1. copy'[q][j] = fp
      BY <1>2, <1>5, <2>1 DEF Store
    <3> QED BY <1>7, <2>1, <3>1 DEF Sound
  <2>2. CASE ~(q = p /\ j = k)
    <3>1. copy'[q][j] = copy[q][j]
      BY <1>2, <1>5, <2>2 DEF Store
    <3>2. Sound(j, copy[q][j])
      OBVIOUS
    <3> QED BY <1>5, <1>6, <3>1, <3>2 DEF Sound
  <2> QED BY <2>1, <2>2
<1>10. ASSUME NEW j \in Keys PROVE Sound(j, file[j])'
  BY <1>5, <1>6 DEF Sound
<1>11. /\ todo' \in [Proxies -> Seq(Tools \X Versions)]
       /\ \A r \in Proxies : \A i \in DOMAIN todo'[r] :
             <<KeyOf(r, todo'[r][i][1]), todo'[r][i][2]>> \in advertised'
  <2>1. todo' = [todo EXCEPT ![p] = Tail(@)]
    BY <1>1 DEF AtTool
  <2>2. Tail(todo[p]) \in Seq(Tools \X Versions)
    BY <1>2
  <2>3. \A i \in DOMAIN Tail(todo[p]) : i + 1 \in DOMAIN todo[p] /\ Tail(todo[p])[i] = todo[p][i + 1]
    BY <1>2
  <2> QED BY <1>6, <2>1, <2>2, <2>3
<1>12. file' \in Store
  BY <1>6
<1> QED BY <1>8, <1>9, <1>10, <1>11, <1>12 DEF KeyOf

LEMMA SoundStart ==
    ASSUME SoundInv, NEW p \in Proxies, InspectStart(p) \/ InspectReadFails(p)
    PROVE  SoundInv'
<1> USE DEF SoundInv
<1>1. p \in Processes /\ advertised \subseteq advertised' /\ accepted' = accepted /\ file' = file
  BY DEF InspectStart, InspectReadFails, Advertise, Processes
<1>2. \A k \in Keys : Sound(k, file[k])'
  BY <1>1 DEF Sound
<1>3. ASSUME NEW k \in Keys, NEW q \in Processes PROVE Sound(k, copy[q][k])'
  <2>1. copy'[q] \in {copy[q], file}
    BY DEF InspectStart, InspectReadFails
  <2>2. Sound(k, copy[q][k]) /\ Sound(k, file[k])
    OBVIOUS
  <2> QED BY <1>1, <2>1, <2>2 DEF Sound
<1>4. copy' \in [Processes -> Store] /\ file' \in Store
  BY <1>1 DEF InspectStart, InspectReadFails
<1>5. CASE InspectReadFails(p)
  <2>1. todo' = todo
    BY <1>5 DEF InspectReadFails, proxyVars
  <2> QED BY <1>1, <1>2, <1>3, <1>4, <2>1 DEF KeyOf
<1>6. CASE InspectStart(p)
  <2>1. PICK l \in Lists : todo' = [todo EXCEPT ![p] = l] /\ Advertise(p, l)
    BY <1>6 DEF InspectStart
  <2>2. l \in Seq(Tools \X Versions)
    BY ToolLockAssumption
  <2>3. \A i \in DOMAIN l : <<KeyOf(p, l[i][1]), l[i][2]>> \in advertised'
    BY <2>1 DEF Advertise
  <2>4. \A r \in Proxies : \A i \in DOMAIN todo'[r] :
          <<KeyOf(r, todo'[r][i][1]), todo'[r][i][2]>> \in advertised'
    BY <1>1, <2>1, <2>3
  <2>5. todo' \in [Proxies -> Seq(Tools \X Versions)]
    BY <2>1, <2>2
  <2> QED BY <1>2, <1>3, <1>4, <2>4, <2>5 DEF KeyOf
<1> QED BY <1>5, <1>6

LEMMA SoundSave ==
    ASSUME SoundInv, NEW q \in Processes, file' = copy[q],
           UNCHANGED <<copy, todo, advertised, accepted>>
    PROVE  SoundInv'
BY DEF SoundInv, Sound, KeyOf

LEMMA SoundLeave ==
    ASSUME SoundInv, UNCHANGED <<file, copy, advertised, accepted>>,
           \/ UNCHANGED todo
           \/ \E p \in Proxies : todo' = [todo EXCEPT ![p] = <<>>]
    PROVE  SoundInv'
<1>1. \A r \in Proxies : todo'[r] \in {todo[r], <<>>}
  BY DEF SoundInv
<1>2. todo' \in [Proxies -> Seq(Tools \X Versions)]
  <2>1. <<>> \in Seq(Tools \X Versions) /\ todo \in [Proxies -> Seq(Tools \X Versions)]
    BY DEF SoundInv
  <2> QED BY <2>1
<1>3. \A r \in Proxies : \A i \in DOMAIN todo'[r] :
        <<KeyOf(r, todo'[r][i][1]), todo'[r][i][2]>> \in advertised'
  BY <1>1 DEF SoundInv
<1>4. \A k \in Keys : Sound(k, file[k])' /\ \A q \in Processes : Sound(k, copy[q][k])'
  BY DEF SoundInv, Sound
<1> QED BY <1>2, <1>3, <1>4 DEF SoundInv, KeyOf

LEMMA SoundApprove ==
    ASSUME SoundInv, NEW o \in Operators, ApproveStart(o)
    PROVE  SoundInv'
<1> USE DEF SoundInv
<1>1. PICK target \in Targets :
        LET moved == Selected(target) \intersect Pending(file) IN
        /\ copy' = [copy EXCEPT ![o] =
              [k \in Keys |-> IF k \in moved THEN Approved(file[k]) ELSE file[k]]]
        /\ accepted' = accepted \union {<<k, file[k].pending>> : k \in moved}
  BY DEF ApproveStart
<1> DEFINE moved == Selected(target) \intersect Pending(file)
<1>2. PICK st : st = [k \in Keys |-> IF k \in moved THEN Approved(file[k]) ELSE file[k]]
  OBVIOUS
<1>3. o \in Processes /\ UNCHANGED <<file, todo, advertised>> /\ accepted \subseteq accepted'
      /\ copy' = [copy EXCEPT ![o] = st]
  BY <1>1, <1>2 DEF ApproveStart, Processes, proxyVars
<1>4. ASSUME NEW k \in Keys PROVE st[k] \in Fingerprint /\ Sound(k, st[k])'
  <2>1. Sound(k, file[k]) /\ file[k] \in Fingerprint
    BY DEF Sound
  <2>2. CASE k \in moved
    <3>1. st[k] = Approved(file[k]) /\ file[k].pending # None /\ <<k, file[k].pending>> \in accepted'
      BY <1>1, <1>2, <2>2 DEF Pending
    <3>2. /\ st[k] \in Fingerprint /\ WellFormed(st[k])
          /\ st[k].hash = file[k].pending /\ st[k].pending = None
      BY <2>1, <3>1, ApprovedEdit DEF Sound
    <3> QED BY <1>3, <2>1, <3>1, <3>2 DEF Sound
  <2>3. CASE k \notin moved
    <3>1. st[k] = file[k]
      BY <1>2, <2>3
    <3> QED BY <1>3, <2>1, <3>1 DEF Sound
  <2> QED BY <2>2, <2>3
<1>5. st \in Store
  <2>1. st = [k \in Keys |-> st[k]]
    BY <1>2
  <2> QED BY <1>4, <2>1 DEF Store
<1>6. copy' \in [Processes -> Store]
  BY <1>3, <1>5
<1>7. ASSUME NEW q \in Processes, NEW k \in Keys PROVE Sound(k, copy[q][k])'
  <2>1. CASE q = o
    <3>1. copy'[q] = st
      BY <1>3, <2>1
    <3> QED BY <1>4, <3>1 DEF Sound
  <2>2. CASE q # o
    <3>1. copy'[q] = copy[q] /\ Sound(k, copy[q][k])
      BY <1>3, <2>2
    <3> QED BY <1>3, <3>1 DEF Sound
  <2> QED BY <2>1, <2>2
<1>8. \A k \in Keys : Sound(k, file[k])'
  BY <1>3 DEF Sound
<1> QED BY <1>3, <1>6, <1>7, <1>8 DEF KeyOf

LEMMA SoundInvariant == Spec => []SoundInv
<1>1. SoundInv /\ [Next]_vars => SoundInv'
  <2> SUFFICES ASSUME SoundInv, [Next]_vars PROVE SoundInv'
    OBVIOUS
  <2>1. ASSUME NEW p \in Proxies, InspectSave(p) PROVE SoundInv'
    BY <2>1, SoundSave DEF InspectSave, Processes, proxyVars
  <2>2. ASSUME NEW p \in Proxies, InspectSaveFails(p) \/ ProxyKilled(p) PROVE SoundInv'
    BY <2>2, SoundLeave DEF InspectSaveFails, ProxyKilled, Leave, history, proxyVars
  <2>3. ASSUME NEW o \in Operators, ApproveSave(o) PROVE SoundInv'
    BY <2>3, SoundSave DEF ApproveSave, Processes, proxyVars, history
  <2>4. ASSUME NEW o \in Operators, ApproveFails(o) PROVE SoundInv'
    BY <2>4, SoundLeave DEF ApproveFails, Leave, history, proxyVars
  <2>5. CASE UNCHANGED vars
    BY <2>5, SoundLeave DEF vars, history, proxyVars
  <2> QED BY <2>1, <2>2, <2>3, <2>4, <2>5, SoundTool, SoundStart, SoundApprove
          DEF Next, Inspect, lockApprove
<1> QED BY <1>1, SoundInit, PTL DEF Spec

-----------------------------------------------------------------------------
(* However proxies and approvals overlap, the store on disk and every copy *)
(* in flight stay well-formed (rugpull.go, Inspect; lock.go, Approve).     *)
THEOREM StoreStaysWellFormed == Spec => []StoreWellFormed
<1>1. SoundInv => StoreWellFormed
  BY DEF SoundInv, Sound, StoreWellFormed, Stores
<1> QED BY <1>1, SoundInvariant, PTL

(* However they overlap, no change becomes the baseline by being seen: a   *)
(* baseline was pinned at first sight or approved by a person.             *)
THEOREM BaselineComesFromAPerson == Spec => []BaselineWasAccepted
<1>1. SoundInv => BaselineWasAccepted
  BY DEF SoundInv, Sound, BaselineWasAccepted, Stores
<1> QED BY <1>1, SoundInvariant, PTL

(* However they overlap, servers do not shadow each other: what is on      *)
(* record under a server's tool is what that server has advertised.        *)
THEOREM ServersDoNotShadow == Spec => []RecordsWhatWasAdvertised
<1>1. SoundInv => RecordsWhatWasAdvertised
  BY DEF SoundInv, Sound, RecordsWhatWasAdvertised, Stores
<1> QED BY <1>1, SoundInvariant, PTL

-----------------------------------------------------------------------------
(* How far a proxy has come in its list. *)

(* The part of its list that p has looked at, and what it has seen of k in *)
(* it: the version advertised last, or the one known from earlier lists.   *)
LookedAt(p) == Len(list[p]) - Len(todo[p])
IsAt(p, i, k) == KeyOf(p, list[p][i][1]) = k

SeenLast(p, k, v) ==
    \/ \E i \in 1..LookedAt(p) :
          /\ IsAt(p, i, k) /\ v = list[p][i][2]
          /\ \A j \in (i+1)..LookedAt(p) : ~IsAt(p, j, k)
    \/ v = lastSaved[k] /\ \A j \in 1..LookedAt(p) : ~IsAt(p, j, k)

Following(p) ==
    /\ Len(todo[p]) <= Len(list[p])
    /\ \A i \in 1..Len(todo[p]) : todo[p][i] = list[p][LookedAt(p) + i]
    /\ \A k \in Keys : \E v \in Hashes : SeenLast(p, k, v)

Silent(p) ==
    \A i \in 1..LookedAt(p) :
        \/ \E c \in changes[p] : c[1] = list[p][i][1] /\ c[3] = list[p][i][2]
        \/ copy[p][KeyOf(p, list[p][i][1])].hash = list[p][i][2]

ProgressInv == TypeOK /\ \A p \in Proxies : Following(p) /\ Silent(p)


LEMMA ProgressInit == Init => ProgressInv
<1> SUFFICES ASSUME Init PROVE ProgressInv
  OBVIOUS
<1>1. file \in Store
  BY SoundInit DEF SoundInv
<1>2. <<>> \in Seq(Tools \X Versions)
  BY EmptySeq
<1>3. advertised \subseteq Keys \X Versions /\ accepted \subseteq Keys \X Versions /\ lastSaved \in [Keys -> Hashes]
  BY ToolLockAssumption DEF Init, Hashes
<1>4. TypeOK
  BY <1>1, <1>2, <1>3 DEF Init, TypeOK
<1>5. ASSUME NEW q \in Proxies PROVE Following(q) /\ Silent(q)
  <2>1. list[q] = <<>> /\ todo[q] = <<>> /\ lastSaved \in [Keys -> Hashes] /\ LookedAt(q) = 0
    BY <1>3, <1>5 DEF Init, LookedAt
  <2>2. \A k \in Keys : \E v \in Hashes : SeenLast(q, k, v)
    <3>1. ASSUME NEW k \in Keys PROVE \E v \in Hashes : SeenLast(q, k, v)
      <4>1. lastSaved[k] \in Hashes
        BY <2>1
      <4>2. \A v : v = lastSaved[k] => SeenLast(q, k, v)
        BY <2>1 DEF SeenLast
      <4> QED BY <4>1, <4>2
    <3> QED BY <3>1
  <2> QED BY <2>1, <2>2 DEF Following, Silent
<1> QED BY <1>4, <1>5 DEF ProgressInv

(* The entry a turn of the loop looks at. *)
LEMMA TurnOfLoop ==
    ASSUME TypeOK, NEW p \in Proxies, Following(p), NEW k \in Keys, NEW v \in Versions, AtTool(p, k, v)
    PROVE  /\ LookedAt(p) \in Nat /\ LookedAt(p)' = LookedAt(p) + 1 /\ LookedAt(p) + 1 \in DOMAIN list[p]
           /\ list[p][LookedAt(p) + 1] \in Tools \X Versions
           /\ IsAt(p, LookedAt(p) + 1, k) /\ list[p][LookedAt(p) + 1][2] = v /\ list[p][LookedAt(p) + 1][1] = k[2]
           /\ todo'[p] \in Seq(Tools \X Versions) /\ Len(todo'[p]) <= Len(list'[p])
           /\ \A i \in 1..Len(todo'[p]) : todo'[p][i] = list'[p][(LookedAt(p) + 1) + i]
<1>1. /\ list[p] \in Seq(Tools \X Versions) /\ todo[p] \in Seq(Tools \X Versions) /\ todo[p] # <<>>
      /\ list' = list /\ todo'[p] = Tail(todo[p])
      /\ k = KeyOf(p, Head(todo[p])[1]) /\ v = Head(todo[p])[2]
  BY DEF TypeOK, AtTool
<1>2. /\ Len(list[p]) \in Nat /\ Len(todo[p]) \in Nat \ {0} /\ DOMAIN list[p] = 1..Len(list[p])
      /\ Head(todo[p]) = todo[p][1]
      /\ Tail(todo[p]) \in Seq(Tools \X Versions) /\ Len(Tail(todo[p])) = Len(todo[p]) - 1
      /\ \A i \in 1..Len(Tail(todo[p])) : Tail(todo[p])[i] = todo[p][i + 1]
  BY <1>1, LenProperties, EmptySeq, HeadTailProperties
<1>3. Len(todo[p]) <= Len(list[p]) /\ \A i \in 1..Len(todo[p]) : todo[p][i] = list[p][LookedAt(p) + i]
  BY DEF Following
<1>4. LookedAt(p) \in Nat /\ LookedAt(p) + 1 \in DOMAIN list[p] /\ LookedAt(p)' = LookedAt(p) + 1
  <2>1. LookedAt(p) = Len(list[p]) - Len(todo[p]) /\ LookedAt(p)' = Len(list[p]) - Len(Tail(todo[p]))
    BY <1>1 DEF LookedAt
  <2>2. Len(Tail(todo[p])) = Len(todo[p]) - 1 /\ Len(list[p]) \in Nat /\ Len(todo[p]) \in Nat \ {0}
    BY <1>2
  <2>3. Len(todo[p]) <= Len(list[p]) /\ DOMAIN list[p] = 1..Len(list[p])
    BY <1>2, <1>3
  <2> DEFINE a == Len(list[p])
             b == Len(todo[p])
             c == Len(Tail(todo[p]))
  <2>4. a \in Nat /\ b \in Nat \ {0} /\ c = b - 1 /\ b <= a
    BY <2>2, <2>3
  <2>5. LookedAt(p) = a - b /\ LookedAt(p)' = a - c /\ DOMAIN list[p] = 1..a
    BY <2>1, <2>3
  <2> HIDE DEF a, b, c
  <2> QED BY <2>4, <2>5
<1>5. Head(todo[p]) = list[p][LookedAt(p) + 1]
  BY <1>2, <1>3
<1>6. list[p][LookedAt(p) + 1] \in Tools \X Versions
  BY <1>1, <1>2, <1>4, ElementOfSeq
<1>7. Len(todo'[p]) <= Len(list'[p]) /\ \A i \in 1..Len(todo'[p]) : todo'[p][i] = list'[p][(LookedAt(p) + 1) + i]
  <2>1. Len(todo'[p]) = Len(todo[p]) - 1
    BY <1>1, <1>2
  <2>2. ASSUME NEW i \in 1..Len(todo'[p]) PROVE todo'[p][i] = list'[p][(LookedAt(p) + 1) + i]
    <3>1. i + 1 \in 1..Len(todo[p]) /\ LookedAt(p) + (i + 1) = (LookedAt(p) + 1) + i
      <4>1. LookedAt(p) \in Nat /\ Len(todo[p]) \in Nat /\ i \in 1..(Len(todo[p]) - 1)
        BY <1>2, <1>4, <2>1
      <4> QED BY <4>1
    <3>2. todo'[p][i] = todo[p][i + 1]
      BY <1>1, <1>2, <2>1
    <3> QED BY <1>1, <1>3, <3>1, <3>2
  <2> QED BY <1>1, <1>2, <1>3, <2>1, <2>2
<1> QED BY <1>1, <1>2, <1>4, <1>5, <1>6, <1>7 DEF IsAt, KeyOf

LEMMA FollowsTool ==
    ASSUME TypeOK, NEW p \in Proxies, Following(p), NEW k \in Keys, NEW v \in Versions, AtTool(p, k, v)
    PROVE  /\ Following(p)'
           /\ SeenLast(p, k, v)'
           /\ \A u \in Hashes : SeenLast(p, k, u)' => u = v
           /\ \A y \in Keys \ {k}, u \in Hashes : SeenLast(p, y, u)' <=> SeenLast(p, y, u)
<1> DEFINE n == LookedAt(p)
<1>1. /\ n \in Nat /\ LookedAt(p)' = n + 1 /\ IsAt(p, n + 1, k) /\ list[p][n + 1][2] = v
      /\ Len(todo'[p]) <= Len(list'[p])
      /\ \A i \in 1..Len(todo'[p]) : todo'[p][i] = list'[p][(n + 1) + i]
      /\ list' = list /\ lastSaved' = lastSaved
  <2>1. list' = list /\ lastSaved' = lastSaved
    BY DEF AtTool
  <2> HIDE DEF AtTool
  <2> QED BY <2>1, TurnOfLoop
<1>2. \A i, y : IsAt(p, i, y)' <=> IsAt(p, i, y)
  BY <1>1 DEF IsAt, KeyOf
<1>3. \A y, u : SeenLast(p, y, u)' <=>
         \/ \E i \in 1..(n+1) : /\ IsAt(p, i, y) /\ u = list[p][i][2]
                                /\ \A j \in (i+1)..(n+1) : ~IsAt(p, j, y)
         \/ u = lastSaved[y] /\ \A j \in 1..(n+1) : ~IsAt(p, j, y)
  BY <1>1, <1>2 DEF SeenLast
<1>4. \A y, u : SeenLast(p, y, u) <=>
         \/ \E i \in 1..n : /\ IsAt(p, i, y) /\ u = list[p][i][2]
                            /\ \A j \in (i+1)..n : ~IsAt(p, j, y)
         \/ u = lastSaved[y] /\ \A j \in 1..n : ~IsAt(p, j, y)
  BY DEF SeenLast
<1> HIDE DEF n
<1>5. SeenLast(p, k, v)'
  BY <1>1, <1>3
<1>6. ASSUME NEW u \in Hashes, SeenLast(p, k, u)' PROVE u = v
  <2>1. n + 1 \in 1..(n + 1)
    BY <1>1
  <2>2. PICK i \in 1..(n+1) : u = list[p][i][2] /\ \A j \in (i+1)..(n+1) : ~IsAt(p, j, k)
    BY <1>1, <1>3, <1>6, <2>1
  <2>3. i = n + 1
    BY <1>1, <2>2
  <2> QED BY <1>1, <2>2, <2>3
<1>7. ASSUME NEW y \in Keys, y # k, NEW u \in Hashes
      PROVE  SeenLast(p, y, u)' <=> SeenLast(p, y, u)
  <2>1. ~IsAt(p, n + 1, y)
    BY <1>1, <1>7 DEF IsAt
  <2>2. ASSUME SeenLast(p, y, u) PROVE SeenLast(p, y, u)'
    <3>1. CASE u = lastSaved[y] /\ \A j \in 1..n : ~IsAt(p, j, y)
      BY <1>1, <1>3, <2>1, <3>1
    <3>2. ASSUME NEW i \in 1..n, IsAt(p, i, y), u = list[p][i][2], \A j \in (i+1)..n : ~IsAt(p, j, y)
          PROVE  SeenLast(p, y, u)'
      <4>1. i \in 1..(n+1) /\ \A j \in (i+1)..(n+1) : ~IsAt(p, j, y)
        BY <1>1, <2>1, <3>2
      <4> QED BY <1>3, <3>2, <4>1
    <3> QED BY <1>4, <2>2, <3>1, <3>2
  <2>3. ASSUME SeenLast(p, y, u)' PROVE SeenLast(p, y, u)
    <3>1. CASE u = lastSaved[y] /\ \A j \in 1..(n+1) : ~IsAt(p, j, y)
      BY <1>1, <1>4, <3>1
    <3>2. ASSUME NEW i \in 1..(n+1), IsAt(p, i, y), u = list[p][i][2], \A j \in (i+1)..(n+1) : ~IsAt(p, j, y)
          PROVE  SeenLast(p, y, u)
      <4>1. i # n + 1
        BY <2>1, <3>2
      <4>2. i \in 1..n /\ \A j \in (i+1)..n : ~IsAt(p, j, y)
        BY <1>1, <3>2, <4>1
      <4> QED BY <1>4, <3>2, <4>2
    <3> QED BY <1>3, <2>3, <3>1, <3>2
  <2> QED BY <2>2, <2>3
<1>8. \A y \in Keys : \E u \in Hashes : SeenLast(p, y, u)'
  <2>1. v \in Hashes
    BY DEF Hashes
  <2> QED BY <1>5, <1>7, <2>1 DEF Following
<1>9. Following(p)'
  BY <1>1, <1>8 DEF Following, n
<1> QED BY <1>5, <1>6, <1>7, <1>9

(* At the end of the list, what is saved is what was seen last. *)
LEMMA SavedIsSeenLast ==
    ASSUME TypeOK, NEW p \in Proxies, Following(p), todo[p] = <<>>, NEW k \in Keys
    PROVE  SavedBy(p, k) \in Hashes /\ SeenLast(p, k, SavedBy(p, k))
<1>1. /\ list[p] \in Seq(Tools \X Versions) /\ Len(list[p]) \in Nat /\ DOMAIN list[p] = 1..Len(list[p])
      /\ Len(todo[p]) = 0
  BY LenProperties, EmptySeq DEF TypeOK
<1>2. LookedAt(p) = Len(list[p])
  BY <1>1 DEF LookedAt
<1> DEFINE n == Len(list[p])
           mine == {i \in DOMAIN list[p] : KeyOf(p, list[p][i][1]) = k}
<1>3. mine = {i \in 1..n : IsAt(p, i, k)} /\ n \in Nat
  BY <1>1 DEF IsAt
<1>4. SavedBy(p, k) = IF mine = {} THEN lastSaved[k]
                      ELSE list[p][CHOOSE i \in mine : \A j \in mine : j <= i][2]
  BY DEF SavedBy
<1>5. PICK u \in Hashes : SeenLast(p, k, u)
  BY DEF Following
<1>6. \/ \E i \in 1..n : /\ IsAt(p, i, k) /\ u = list[p][i][2]
                         /\ \A j \in (i+1)..n : ~IsAt(p, j, k)
      \/ u = lastSaved[k] /\ \A j \in 1..n : ~IsAt(p, j, k)
  BY <1>2, <1>5 DEF SeenLast
<1> HIDE DEF mine, n
<1>7. CASE u = lastSaved[k] /\ \A j \in 1..n : ~IsAt(p, j, k)
  <2>1. mine = {}
    BY <1>3, <1>7
  <2> QED BY <1>4, <1>5, <1>7, <2>1
<1>8. ASSUME NEW i \in 1..n, IsAt(p, i, k), u = list[p][i][2], \A j \in (i+1)..n : ~IsAt(p, j, k)
      PROVE  SavedBy(p, k) = u
  <2>1. i \in mine
    BY <1>3, <1>8
  <2>2. \A j \in mine : j <= i /\ j \in Nat
    BY <1>3, <1>8
  <2>3. \A x \in mine : (\A j \in mine : j <= x) => x = i
    BY <2>1, <2>2
  <2>4. (CHOOSE x \in mine : \A j \in mine : j <= x) = i
    BY <2>1, <2>2, <2>3
  <2> QED BY <1>4, <1>8, <2>1, <2>4
<1> QED BY <1>5, <1>6, <1>7, <1>8

(* A proxy without a list has seen of each tool what is known of it. *)
LEMMA NothingDone ==
    ASSUME NEW q \in Proxies, lastSaved' \in [Keys -> Hashes], list'[q] = <<>>, todo'[q] = <<>>
    PROVE  Following(q)' /\ Silent(q)'
<1>1. LookedAt(q)' = 0
  BY DEF LookedAt
<1>2. ASSUME NEW k \in Keys PROVE \E v \in Hashes : SeenLast(q, k, v)'
  <2>1. lastSaved'[k] \in Hashes
    OBVIOUS
  <2>2. \A v : v = lastSaved'[k] => SeenLast(q, k, v)'
    BY <1>1 DEF SeenLast
  <2> QED BY <2>1, <2>2
<1>3. Following(q)'
  BY <1>2 DEF Following
<1>4. Silent(q)'
  BY <1>1 DEF Silent
<1> QED BY <1>3, <1>4

LEMMA OthersFollow ==
    ASSUME NEW q \in Proxies, Following(q), Silent(q), lastSaved' \in [Keys -> Hashes],
           todo'[q] = todo[q], list'[q] = list[q], copy'[q] = copy[q], changes'[q] = changes[q]
    PROVE  Following(q)' /\ Silent(q)'
<1>1. LookedAt(q)' = LookedAt(q)
  BY DEF LookedAt
<1>2. \A i, k : IsAt(q, i, k)' <=> IsAt(q, i, k)
  BY DEF IsAt, KeyOf
<1>3. ASSUME NEW k \in Keys PROVE \E v \in Hashes : SeenLast(q, k, v)'
  <2>1. PICK u \in Hashes : SeenLast(q, k, u)
    BY DEF Following
  <2>2. CASE \A j \in 1..LookedAt(q) : ~IsAt(q, j, k)
    <3>1. SeenLast(q, k, lastSaved[k])'
      BY <1>1, <1>2, <2>2 DEF SeenLast
    <3>2. lastSaved'[k] \in Hashes
      OBVIOUS
    <3>3. SeenLast(q, k, lastSaved[k])' <=> \E v \in {lastSaved'[k]} : SeenLast(q, k, v)'
      BY DEF SeenLast
    <3> QED BY <3>1, <3>2, <3>3
  <2>3. CASE ~ \A j \in 1..LookedAt(q) : ~IsAt(q, j, k)
    <3>1. SeenLast(q, k, u)'
      BY <1>1, <1>2, <2>1, <2>3 DEF SeenLast
    <3> QED BY <3>1
  <2> QED BY <2>2, <2>3
<1>4. Following(q)'
  BY <1>1, <1>3 DEF Following
<1>5. Silent(q)'
  BY <1>1 DEF Silent, KeyOf
<1> QED BY <1>4, <1>5

(* A turn of the loop reports the entry it looks at, or leaves its version *)
(* as the baseline, and unsays nothing.                                    *)
LEMMA SilentTool ==
    ASSUME TypeOK, NEW p \in Proxies, Following(p), Silent(p), NEW k \in Keys, NEW v \in Versions,
           AtTool(p, k, v), FirstSeen(p, k, v) \/ Unchanged(p, k, v) \/ Changed(p, k, v)
    PROVE  Silent(p)'
<1>1. /\ LookedAt(p) \in Nat /\ LookedAt(p)' = LookedAt(p) + 1 /\ LookedAt(p) + 1 \in DOMAIN list[p]
      /\ IsAt(p, LookedAt(p) + 1, k) /\ list[p][LookedAt(p) + 1][2] = v /\ list[p][LookedAt(p) + 1][1] = k[2]
  BY TurnOfLoop
<1>2. list' = list /\ list[p] \in Seq(Tools \X Versions) /\ DOMAIN list[p] = 1..Len(list[p]) /\ Len(list[p]) \in Nat
  BY LenProperties DEF AtTool, TypeOK
<1>3. /\ copy \in [Processes -> Store] /\ p \in Processes /\ copy[p] \in Store
      /\ DOMAIN changes = Proxies /\ None \notin Versions
  BY ToolLockAssumption DEF TypeOK, Processes
<1>4. /\ \A y \in Keys \ {k} : copy'[p][y] = copy[p][y]
      /\ copy'[p][k].hash = IF copy[p][k].hash = None THEN v ELSE copy[p][k].hash
      /\ changes[p] \subseteq changes'[p]
      /\ \/ copy'[p][k].hash = v
         \/ \E c \in changes'[p] : c[1] = k[2] /\ c[3] = v
  <2>1. CASE FirstSeen(p, k, v)
    <3>1. copy'[p] = [copy[p] EXCEPT ![k] = FirstPin(v)] /\ changes' = changes /\ copy[p][k].hash = None
      BY <1>3, <2>1 DEF FirstSeen
    <3> QED BY <1>3, <3>1, FirstPinEdit DEF Store
  <2>2. CASE Unchanged(p, k, v)
    <3>1. /\ copy'[p] = [copy[p] EXCEPT ![k] = StillBaseline(copy[p][k])] /\ changes' = changes
          /\ copy[p][k].hash = v
      BY <1>3, <2>2 DEF Unchanged
    <3>2. StillBaseline(copy[p][k]).hash = copy[p][k].hash
      BY <1>3 DEF StillBaseline, ClearPending, Store, Fingerprint
    <3> QED BY <1>3, <3>1, <3>2 DEF Store
  <2>3. CASE Changed(p, k, v)
    <3>1. /\ copy'[p] = [copy[p] EXCEPT ![k] = ChangedTo(copy[p][k], v)]
          /\ changes'[p] = changes[p] \union {<<k[2], copy[p][k].hash, v>>}
          /\ copy[p][k].hash # None
      BY <1>3, <2>3 DEF Changed
    <3>2. ChangedTo(copy[p][k], v).hash = copy[p][k].hash
      BY <1>3 DEF ChangedTo, Store, Fingerprint
    <3>3. <<k[2], copy[p][k].hash, v>> \in changes'[p]
      BY <3>1
    <3> QED BY <1>3, <3>1, <3>2, <3>3 DEF Store
  <2> QED BY <2>1, <2>2, <2>3
<1> SUFFICES ASSUME NEW i \in 1..(LookedAt(p) + 1)
             PROVE  \/ \E c \in changes'[p] : c[1] = list[p][i][1] /\ c[3] = list[p][i][2]
                    \/ copy'[p][KeyOf(p, list[p][i][1])].hash = list[p][i][2]
  BY <1>1, <1>2 DEF Silent, KeyOf
<1>5. CASE i = LookedAt(p) + 1
  BY <1>1, <1>4, <1>5 DEF IsAt
<1>6. CASE i \in 1..LookedAt(p)
  <2> DEFINE y == KeyOf(p, list[p][i][1])
  <2>1. list[p][i] \in Tools \X Versions
    BY <1>1, <1>2, <1>6, ElementOfSeq
  <2>2. y \in Keys /\ list[p][i][2] \in Versions
    BY <2>1, ToolLockAssumption DEF KeyOf, Keys
  <2>3. \/ \E c \in changes[p] : c[1] = list[p][i][1] /\ c[3] = list[p][i][2]
        \/ copy[p][y].hash = list[p][i][2]
    BY <1>6 DEF Silent
  <2>4. copy[p][y].hash # None => copy'[p][y].hash = copy[p][y].hash
    BY <1>4, <2>2
  <2> HIDE DEF y
  <2>5. copy[p][y].hash = list[p][i][2] => copy'[p][y].hash = list[p][i][2]
    BY <1>3, <2>2, <2>4
  <2> QED BY <1>4, <2>3, <2>5 DEF y
<1> QED BY <1>1, <1>5, <1>6

LEMMA ProgressTool ==
    ASSUME ProgressInv, SoundInv', NEW p \in Proxies, InspectTool(p)
    PROVE  ProgressInv'
<1>1. PICK k \in Keys, v \in Versions :
        AtTool(p, k, v) /\ (FirstSeen(p, k, v) \/ Unchanged(p, k, v) \/ Changed(p, k, v))
  BY DEF InspectTool
<1>2. TypeOK /\ p \in active /\ p \in Processes /\ Following(p) /\ Silent(p)
  BY <1>1 DEF ProgressInv, AtTool, Processes
<1>3. /\ active' = active /\ list' = list /\ lastSaved' = lastSaved /\ turns' = turns
      /\ approved' = approved /\ advertised' = advertised /\ todo' = [todo EXCEPT ![p] = Tail(@)]
  BY <1>1 DEF AtTool
<1>4. /\ changes' \in [Proxies -> SUBSET (Tools \X Versions \X Versions)]
      /\ \A q \in Proxies \ {p} : changes'[q] = changes[q]
      /\ accepted' \subseteq Keys \X Versions
      /\ \A q \in Processes \ {p} : copy'[q] = copy[q]
  <2>1. CASE FirstSeen(p, k, v)
    BY <1>2, <2>1 DEF FirstSeen, TypeOK
  <2>2. CASE Unchanged(p, k, v)
    BY <1>2, <2>2 DEF Unchanged, TypeOK
  <2>3. CASE Changed(p, k, v)
    <3>1. copy[p][k].hash \in Versions /\ k[2] \in Tools
      <4>1. copy[p] \in Store
        BY <1>2 DEF TypeOK
      <4>2. copy[p][k].hash \in Hashes /\ copy[p][k].hash # None
        BY <2>3, <4>1 DEF Store, Fingerprint, Changed
      <4>3. k[2] \in Tools
        BY DEF Keys
      <4> QED BY <4>2, <4>3 DEF Hashes
    <3>2. <<k[2], copy[p][k].hash, v>> \in Tools \X Versions \X Versions
      BY <3>1
    <3>3. PICK c \in Tools \X Versions \X Versions : changes' = [changes EXCEPT ![p] = changes[p] \union {c}]
      BY <2>3, <3>2 DEF Changed
    <3>4. accepted' = accepted /\ \A q \in Processes \ {p} : copy'[q] = copy[q]
      BY <1>2, <2>3 DEF Changed, TypeOK
    <3>5. \A q \in Proxies \ {p} : changes'[q] = changes[q]
      BY <1>2, <3>3 DEF TypeOK
    <3>6. changes' \in [Proxies -> SUBSET (Tools \X Versions \X Versions)]
      BY <1>2, <3>3 DEF TypeOK
    <3> QED BY <1>2, <3>4, <3>5, <3>6 DEF TypeOK
  <2> QED BY <1>1, <2>1, <2>2, <2>3
<1>5. TypeOK'
  BY <1>2, <1>3, <1>4 DEF TypeOK, SoundInv
<1>6. Following(p)' /\ Silent(p)'
  BY <1>1, <1>2, FollowsTool, SilentTool
<1>7. ASSUME NEW q \in Proxies, q # p PROVE Following(q)' /\ Silent(q)'
  <2>1. /\ todo'[q] = todo[q] /\ list'[q] = list[q] /\ copy'[q] = copy[q] /\ changes'[q] = changes[q]
        /\ lastSaved' \in [Keys -> Hashes]
    BY <1>2, <1>3, <1>4, <1>7 DEF TypeOK, Processes
  <2>2. Following(q) /\ Silent(q)
    BY <1>7 DEF ProgressInv
  <2> QED BY <2>1, <2>2, OthersFollow
<1> QED BY <1>3, <1>5, <1>6, <1>7 DEF ProgressInv

LEMMA ProgressStart ==
    ASSUME ProgressInv, SoundInv', NEW p \in Proxies, InspectStart(p)
    PROVE  ProgressInv'
<1>1. PICK l \in Lists : /\ list' = [list EXCEPT ![p] = l] /\ todo' = [todo EXCEPT ![p] = l]
                         /\ Advertise(p, l)
  BY DEF InspectStart
<1>2. /\ active' = active \union {p} /\ turns' = [turns EXCEPT ![p] = @ + 1]
      /\ copy' = [copy EXCEPT ![p] = file]
      /\ changes' = [changes EXCEPT ![p] = {}] /\ UNCHANGED <<approved, accepted, lastSaved>>
      /\ TypeOK /\ p \in Processes /\ l \in Seq(Tools \X Versions) /\ p \notin active
  BY <1>1, ToolLockAssumption DEF InspectStart, MayStart, ProgressInv, Processes
<1>3. advertised' \subseteq Keys \X Versions
  <2>1. ASSUME NEW i \in DOMAIN l PROVE <<KeyOf(p, l[i][1]), l[i][2]>> \in Keys \X Versions
    BY <1>2, ElementOfSeq, LenProperties, ToolLockAssumption DEF KeyOf, Keys
  <2> QED BY <1>1, <1>2, <2>1 DEF Advertise, TypeOK
<1>4. TypeOK'
  BY <1>1, <1>2, <1>3 DEF TypeOK, SoundInv
<1>5. Following(p)' /\ Silent(p)'
  <2>1. list'[p] = l /\ todo'[p] = l /\ Len(l) \in Nat
    BY <1>1, <1>2, LenProperties DEF TypeOK
  <2>2. LookedAt(p)' = 0
    BY <2>1 DEF LookedAt
  <2>3. \A k \in Keys : \E v \in Hashes : SeenLast(p, k, v)'
    <3>1. ASSUME NEW k \in Keys PROVE \E v \in Hashes : SeenLast(p, k, v)'
      <4>1. lastSaved'[k] \in Hashes
        BY <1>2 DEF TypeOK
      <4>2. \A v : v = lastSaved'[k] => SeenLast(p, k, v)'
        BY <2>2 DEF SeenLast
      <4> QED BY <4>1, <4>2
    <3> QED BY <3>1
  <2>4. Following(p)'
    BY <2>1, <2>2, <2>3 DEF Following
  <2>5. Silent(p)'
    BY <2>2 DEF Silent
  <2> QED BY <2>4, <2>5
<1>6. ASSUME NEW q \in Proxies, q # p PROVE Following(q)' /\ Silent(q)'
  <2>2. /\ todo'[q] = todo[q] /\ list'[q] = list[q] /\ copy'[q] = copy[q] /\ changes'[q] = changes[q]
        /\ lastSaved' \in [Keys -> Hashes]
    BY <1>1, <1>2, <1>6 DEF TypeOK, Processes
  <2>3. Following(q) /\ Silent(q)
    BY <1>6 DEF ProgressInv
  <2> QED BY <2>2, <2>3, OthersFollow
<1> QED BY <1>2, <1>4, <1>5, <1>6 DEF ProgressInv

(* Steps that leave the progress of a proxy as it is, or undo it. *)
LEMMA ProgressOthers ==
    ASSUME ProgressInv, TypeOK',
           \A q \in Proxies :
               \/ list'[q] = <<>> /\ todo'[q] = <<>>
               \/ /\ todo'[q] = todo[q] /\ list'[q] = list[q]
                  /\ copy'[q] = copy[q] /\ changes'[q] = changes[q]
    PROVE  ProgressInv'
<1>1. lastSaved' \in [Keys -> Hashes]
  BY DEF TypeOK
<1>2. ASSUME NEW q \in Proxies PROVE Following(q)' /\ Silent(q)'
  <2>1. CASE list'[q] = <<>> /\ todo'[q] = <<>>
    BY <1>1, <2>1, NothingDone
  <2>2. CASE /\ todo'[q] = todo[q] /\ list'[q] = list[q]
             /\ copy'[q] = copy[q] /\ changes'[q] = changes[q]
    BY <1>1, <2>2, OthersFollow DEF ProgressInv
  <2> QED BY <2>1, <2>2
<1> QED BY <1>2 DEF ProgressInv

LEMMA ProgressSave ==
    ASSUME ProgressInv, SoundInv', NEW p \in Proxies, InspectSave(p)
    PROVE  ProgressInv'
<1>1. /\ p \in active /\ todo[p] = <<>> /\ active' = active \ {p}
      /\ lastSaved' = [k \in Keys |-> SavedBy(p, k)]
      /\ UNCHANGED <<copy, turns, list, todo, changes, approved, advertised, accepted>>
      /\ p \in Processes /\ TypeOK /\ Following(p)
  BY DEF InspectSave, proxyVars, ProgressInv, Processes
<1>2. lastSaved' \in [Keys -> Hashes]
  BY <1>1, SavedIsSeenLast
<1>3. TypeOK'
  BY <1>1, <1>2 DEF TypeOK, SoundInv
<1> QED BY <1>1, <1>3, ProgressOthers

LEMMA ProgressLeave ==
    ASSUME ProgressInv, SoundInv', NEW q \in Processes, q \in active, Leave(q),
           \A p \in Proxies :
               \/ list'[p] = <<>> /\ todo'[p] = <<>>
               \/ todo'[p] = todo[p] /\ list'[p] = list[p] /\ changes'[p] = changes[p],
           q \in Proxies => todo'[q] = <<>>,
           list' \in [Proxies -> Seq(Tools \X Versions)],
           changes' \in [Proxies -> SUBSET (Tools \X Versions \X Versions)]
    PROVE  ProgressInv'
<1>1. /\ active' = active \ {q} /\ UNCHANGED <<file, copy, turns, approved, advertised, accepted, lastSaved>>
      /\ TypeOK
  BY DEF Leave, history, ProgressInv
<1>2. TypeOK'
  BY <1>1 DEF TypeOK, SoundInv
<1> QED BY <1>1, <1>2, ProgressOthers

LEMMA ProgressApprove ==
    ASSUME ProgressInv, SoundInv, SoundInv', NEW o \in Operators, ApproveStart(o)
    PROVE  ProgressInv'
<1>1. PICK target \in Targets :
        LET moved == Selected(target) \intersect Pending(file) IN
        /\ copy' = [copy EXCEPT ![o] =
              [k \in Keys |-> IF k \in moved THEN Approved(file[k]) ELSE file[k]]]
        /\ approved' = [approved EXCEPT ![o] = {<<k, file[k].pending>> : k \in moved}]
        /\ accepted' = accepted \union {<<k, file[k].pending>> : k \in moved}
  BY DEF ApproveStart
<1> DEFINE new == {<<k, file[k].pending>> : k \in Selected(target) \intersect Pending(file)}
<1>2. /\ active' = active \union {o} /\ turns' = [turns EXCEPT ![o] = @ + 1]
      /\ UNCHANGED <<file, list, todo, changes, advertised, lastSaved>>
      /\ TypeOK /\ o \in Processes /\ o \notin Proxies
      /\ copy' = [copy EXCEPT ![o] = copy'[o]]
  BY <1>1, ToolLockAssumption DEF ApproveStart, proxyVars, ProgressInv, Processes, TypeOK
<1>3. new \subseteq Keys \X Versions
  <2>1. ASSUME NEW k \in Selected(target) \intersect Pending(file) PROVE k \in Keys /\ file[k].pending \in Versions
    BY <1>2 DEF Pending, TypeOK, Store, Fingerprint, Hashes
  <2> QED BY <2>1
<1>4. approved' = [approved EXCEPT ![o] = new] /\ accepted' = accepted \union new
  BY <1>1
<1> HIDE DEF new
<1>5. TypeOK'
  BY <1>2, <1>3, <1>4 DEF TypeOK, SoundInv
<1>6. \A q \in Proxies : copy'[q] = copy[q]
  BY <1>2 DEF TypeOK, Processes
<1> QED BY <1>2, <1>5, <1>6, ProgressOthers

LEMMA ProgressStep == SoundInv /\ SoundInv' /\ ProgressInv /\ [Next]_vars => ProgressInv'
<1> SUFFICES ASSUME SoundInv, SoundInv', ProgressInv, [Next]_vars PROVE ProgressInv'
  OBVIOUS
<1>1. TypeOK
  BY DEF ProgressInv
<1>2. ASSUME NEW p \in Proxies, InspectReadFails(p) PROVE ProgressInv'
  <2>1. /\ p \in Processes /\ p \notin active
        /\ UNCHANGED <<file, active, copy, list, todo, changes, approved, accepted, lastSaved>>
        /\ turns' = [turns EXCEPT ![p] = @ + 1]
    BY <1>2 DEF InspectReadFails, MayStart, proxyVars, Processes
  <2>2. advertised' \subseteq Keys \X Versions
    <3>1. PICK l \in Lists : Advertise(p, l)
      BY <1>2 DEF InspectReadFails
    <3>2. l \in Seq(Tools \X Versions)
      BY ToolLockAssumption
    <3>3. ASSUME NEW i \in DOMAIN l PROVE <<KeyOf(p, l[i][1]), l[i][2]>> \in Keys \X Versions
      BY <3>2, ElementOfSeq, LenProperties, ToolLockAssumption DEF KeyOf, Keys
    <3> QED BY <1>1, <3>1, <3>3 DEF Advertise, TypeOK
  <2>3. TypeOK'
    BY <1>1, <2>1, <2>2 DEF TypeOK
  <2> QED BY <2>1, <2>3, ProgressOthers
<1>3. ASSUME NEW p \in Proxies, InspectSaveFails(p) PROVE ProgressInv'
  BY <1>1, <1>3, ProgressLeave DEF InspectSaveFails, proxyVars, Processes, TypeOK
<1>4. ASSUME NEW p \in Proxies, ProxyKilled(p) PROVE ProgressInv'
  <2>1. /\ p \in active /\ Leave(p) /\ p \in Processes
        /\ todo' = [todo EXCEPT ![p] = <<>>] /\ list' = [list EXCEPT ![p] = <<>>]
        /\ changes' = [changes EXCEPT ![p] = {}] /\ <<>> \in Seq(Tools \X Versions)
    BY <1>4, EmptySeq DEF ProxyKilled, Processes
  <2>2. /\ list' \in [Proxies -> Seq(Tools \X Versions)]
        /\ changes' \in [Proxies -> SUBSET (Tools \X Versions \X Versions)]
        /\ todo'[p] = <<>> /\ list'[p] = <<>>
        /\ \A q \in Proxies \ {p} : todo'[q] = todo[q] /\ list'[q] = list[q] /\ changes'[q] = changes[q]
    BY <1>1, <2>1 DEF TypeOK
  <2> QED BY <2>1, <2>2, ProgressLeave
<1>5. ASSUME NEW o \in Operators, ApproveSave(o) PROVE ProgressInv'
  <2>1. /\ o \in Processes /\ o \notin Proxies /\ active' = active \ {o}
        /\ UNCHANGED <<copy, turns, list, todo, changes, approved, advertised, accepted, lastSaved>>
    BY <1>5, ToolLockAssumption DEF ApproveSave, proxyVars, history, Processes
  <2>2. TypeOK'
    BY <1>1, <2>1 DEF TypeOK, SoundInv
  <2> QED BY <2>1, <2>2, ProgressOthers
<1>6. ASSUME NEW o \in Operators, ApproveFails(o) PROVE ProgressInv'
  BY <1>1, <1>6, ProgressLeave, ToolLockAssumption DEF ApproveFails, proxyVars, Processes, TypeOK
<1>7. CASE UNCHANGED vars
  <2>1. UNCHANGED <<file, active, copy, turns, list, todo, changes, approved, advertised, accepted, lastSaved>>
    BY <1>7 DEF vars, proxyVars, history
  <2>2. TypeOK'
    BY <1>1, <2>1 DEF TypeOK
  <2>3. ASSUME NEW q \in Proxies PROVE Following(q)' /\ Silent(q)'
    BY <1>1, <2>1, <2>3, OthersFollow DEF ProgressInv, TypeOK
  <2> QED BY <2>1, <2>2, <2>3 DEF ProgressInv
<1> QED BY <1>2, <1>3, <1>4, <1>5, <1>6, <1>7, ProgressTool, ProgressStart, ProgressSave, ProgressApprove
        DEF Next, Inspect, lockApprove

LEMMA ProgressInvariant == Spec => []ProgressInv
BY ProgressInit, ProgressStep, SoundInvariant, PTL DEF Spec

(* Type correctness of the store, of the copies and of what each process   *)
(* is at.                                                                  *)
THEOREM TypeCorrect == Spec => []TypeOK
<1>1. ProgressInv => TypeOK
  BY DEF ProgressInv
<1> QED BY <1>1, ProgressInvariant, PTL

(* However proxies and approvals overlap, wherever Inspect has come in its *)
(* loop and whether its save succeeds or fails, a tool it does not report  *)
(* had the baseline version of the store it works on, in every entry of    *)
(* the list (rugpull.go, Inspect).                                         *)
THEOREM SilenceIsBaseline == Spec => []SilenceMeansBaseline
<1>1. ProgressInv => SilenceMeansBaseline
  BY DEF ProgressInv, Silent, LookedAt, SilenceMeansBaseline
<1> QED BY <1>1, ProgressInvariant, PTL

-----------------------------------------------------------------------------
(* Where the environment keeps the processes apart. *)

(* A fingerprint is true of v if what is pending is v exactly where v is   *)
(* not the baseline.                                                       *)
TrueOf(fp, v) ==
    /\ fp.hash # None => v # None
    /\ fp.pending = IF fp.hash \in {None, v} THEN None ELSE v

TrueOnDisk == \A k \in Keys : TrueOf(file[k], lastSaved[k])

ApprovalInHand(o) ==
    \A k \in Keys :
        /\ TrueOf(copy[o][k], lastSaved[k])
        /\ file[k].hash \notin {None, copy[o][k].hash} => <<k, copy[o][k].hash>> \in approved[o]

ListInHand(p) ==
    \A k \in Keys :
        /\ \A v \in Hashes : SeenLast(p, k, v) => TrueOf(copy[p][k], v)
        /\ file[k].hash \in {None, copy[p][k].hash}

SerialInv ==
    /\ \A q, r \in active : q = r
    /\ TrueOnDisk
    /\ \A o \in Operators \intersect active : ApprovalInHand(o)
    /\ \A p \in Proxies \intersect active : ListInHand(p)

LEMMA SerialInit == Init => SerialInv
<1> SUFFICES ASSUME Init PROVE SerialInv
  OBVIOUS
<1>1. ASSUME NEW k \in Keys PROVE TrueOf(file[k], lastSaved[k])
  <2>1. file[k].hash = Legacy[k] /\ file[k].pending = None /\ lastSaved[k] = Legacy[k]
    BY DEF Init, Absent
  <2> QED BY <2>1 DEF TrueOf
<1> QED BY <1>1 DEF Init, SerialInv, TrueOnDisk

LEMMA SerialStart ==
    ASSUME Serial, SoundInv, ProgressInv, SerialInv, NEW p \in Proxies, InspectStart(p)
    PROVE  SerialInv'
<1>1. PICK l \in Lists : list' = [list EXCEPT ![p] = l] /\ todo' = [todo EXCEPT ![p] = l]
  BY DEF InspectStart
<1>2. /\ active' = {p} /\ copy'[p] = file /\ file' = file /\ lastSaved' = lastSaved
      /\ p \notin Operators /\ TypeOK
  BY ToolLockAssumption DEF InspectStart, MayStart, ProgressInv, TypeOK, Processes
<1>3. TrueOnDisk'
  BY <1>2 DEF SerialInv, TrueOnDisk, TrueOf
<1>4. ListInHand(p)'
  <2>1. list'[p] = l /\ todo'[p] = l /\ Len(l) \in Nat
    BY <1>1, <1>2, LenProperties, ToolLockAssumption DEF TypeOK
  <2>2. LookedAt(p)' = 0
    BY <2>1 DEF LookedAt
  <2>3. \A k \in Keys : \A v : SeenLast(p, k, v)' => v = lastSaved[k]
    BY <1>2, <2>2 DEF SeenLast
  <2>4. \A k \in Keys : TrueOf(file[k], lastSaved[k])
    BY DEF SerialInv, TrueOnDisk
  <2> QED BY <1>2, <2>3, <2>4 DEF ListInHand, TrueOf
<1> QED BY <1>2, <1>3, <1>4 DEF SerialInv

LEMMA SerialTool ==
    ASSUME SoundInv, ProgressInv, SerialInv, NEW p \in Proxies, InspectTool(p)
    PROVE  SerialInv'
<1>1. PICK k \in Keys, v \in Versions :
        AtTool(p, k, v) /\ (FirstSeen(p, k, v) \/ Unchanged(p, k, v) \/ Changed(p, k, v))
  BY DEF InspectTool
<1>2. /\ p \in active /\ UNCHANGED <<active, file, lastSaved>> /\ p \in Processes /\ p \notin Operators
      /\ \A q \in active : q = p
      /\ TypeOK /\ Following(p) /\ copy[p] \in Store /\ ListInHand(p)
  BY <1>1, ToolLockAssumption DEF AtTool, SerialInv, ProgressInv, TypeOK, Processes
<1>3. /\ \A y \in Keys \ {k} : copy'[p][y] = copy[p][y]
      /\ copy[p][k].hash \in {None, copy'[p][k].hash}
      /\ TrueOf(copy'[p][k], v)
  <2>1. copy[p][k] \in Fingerprint /\ WellFormed(copy[p][k]) /\ v # None
        /\ copy \in [Processes -> Store] /\ copy[p] \in [Keys -> Fingerprint] /\ p \in Processes
    BY <1>2, ToolLockAssumption DEF SoundInv, Sound, TypeOK, Store
  <2>2. CASE FirstSeen(p, k, v)
    <3>1. copy[p][k].hash = None /\ copy'[p] = [copy[p] EXCEPT ![k] = FirstPin(v)]
      BY <2>1, <2>2 DEF FirstSeen
    <3> QED BY <2>1, <3>1, FirstPinEdit DEF TrueOf
  <2>3. CASE Unchanged(p, k, v)
    <3>1. copy[p][k].hash = v /\ copy'[p] = [copy[p] EXCEPT ![k] = StillBaseline(copy[p][k])]
      BY <2>1, <2>3 DEF Unchanged
    <3> QED BY <2>1, <3>1, StillBaselineEdit DEF TrueOf
  <2>4. CASE Changed(p, k, v)
    <3>1. copy[p][k].hash \notin {None, v} /\ copy'[p] = [copy[p] EXCEPT ![k] = ChangedTo(copy[p][k], v)]
      BY <2>1, <2>4 DEF Changed
    <3> QED BY <2>1, <3>1, ChangedToEdit DEF TrueOf
  <2> QED BY <1>1, <2>2, <2>3, <2>4
<1>4. /\ \A u \in Hashes : SeenLast(p, k, u)' => u = v
      /\ \A y \in Keys \ {k}, u \in Hashes : SeenLast(p, y, u)' <=> SeenLast(p, y, u)
  BY <1>1, <1>2, FollowsTool
<1>5. ListInHand(p)'
  <2>1. ASSUME NEW y \in Keys, NEW u \in Hashes, SeenLast(p, y, u)' PROVE TrueOf(copy'[p][y], u)
    <3>1. CASE y = k
      BY <1>3, <1>4, <2>1, <3>1
    <3>2. CASE y # k
      BY <1>2, <1>3, <1>4, <2>1, <3>2 DEF ListInHand
    <3> QED BY <3>1, <3>2
  <2>2. ASSUME NEW y \in Keys PROVE file[y].hash \in {None, copy'[p][y].hash}
    BY <1>2, <1>3 DEF ListInHand
  <2> QED BY <1>2, <2>1, <2>2 DEF ListInHand, TrueOf
<1>6. TrueOnDisk'
  BY <1>2 DEF SerialInv, TrueOnDisk, TrueOf
<1> QED BY <1>2, <1>5, <1>6 DEF SerialInv

LEMMA SerialSave ==
    ASSUME ProgressInv, SerialInv, NEW p \in Proxies, InspectSave(p)
    PROVE  SerialInv'
<1>1. /\ p \in active /\ todo[p] = <<>> /\ active' = active \ {p} /\ file' = copy[p]
      /\ \A k \in Keys : lastSaved'[k] = SavedBy(p, k)
      /\ TypeOK /\ Following(p) /\ ListInHand(p)
  BY DEF InspectSave, ProgressInv, SerialInv
<1>2. active' = {}
  BY <1>1 DEF SerialInv
<1>3. ASSUME NEW k \in Keys PROVE TrueOf(copy[p][k], SavedBy(p, k))
  BY <1>1, SavedIsSeenLast DEF ListInHand
<1>4. TrueOnDisk'
  BY <1>1, <1>3 DEF TrueOnDisk, TrueOf
<1> QED BY <1>2, <1>4 DEF SerialInv

LEMMA SerialApprove ==
    ASSUME Serial, SoundInv, ProgressInv, SerialInv, NEW o \in Operators, ApproveStart(o)
    PROVE  SerialInv'
<1>1. PICK target \in Targets :
        LET moved == Selected(target) \intersect Pending(file) IN
        /\ copy' = [copy EXCEPT ![o] =
              [k \in Keys |-> IF k \in moved THEN Approved(file[k]) ELSE file[k]]]
        /\ approved' = [approved EXCEPT ![o] = {<<k, file[k].pending>> : k \in moved}]
  BY DEF ApproveStart
<1> DEFINE moved == Selected(target) \intersect Pending(file)
<1>2. /\ active' = {o} /\ file' = file /\ lastSaved' = lastSaved /\ o \notin Proxies
      /\ \A k \in Keys : copy'[o][k] = IF k \in moved THEN Approved(file[k]) ELSE file[k]
      /\ \A k \in moved : <<k, file[k].pending>> \in approved'[o]
  BY <1>1, ToolLockAssumption DEF ApproveStart, MayStart, ProgressInv, TypeOK, Processes
<1>3. TrueOnDisk'
  BY <1>2 DEF SerialInv, TrueOnDisk, TrueOf
<1>4. ASSUME NEW k \in Keys
      PROVE  /\ TrueOf(copy'[o][k], lastSaved[k])
             /\ file[k].hash \notin {None, copy'[o][k].hash} => <<k, copy'[o][k].hash>> \in approved'[o]
  <2>1. TrueOf(file[k], lastSaved[k]) /\ file[k] \in Fingerprint /\ WellFormed(file[k])
    BY DEF SerialInv, TrueOnDisk, SoundInv, Sound
  <2>2. CASE k \in moved
    <3>1. file[k].pending # None /\ copy'[o][k] = Approved(file[k]) /\ <<k, file[k].pending>> \in approved'[o]
      BY <1>2, <2>2 DEF Pending
    <3>2. Approved(file[k]).hash = file[k].pending /\ Approved(file[k]).pending = None
      BY <2>1, <3>1, ApprovedEdit
    <3>3. file[k].pending = lastSaved[k]
      BY <2>1, <3>1 DEF TrueOf
    <3> QED BY <3>1, <3>2, <3>3 DEF TrueOf
  <2>3. CASE k \notin moved
    BY <1>2, <2>1, <2>3
  <2> QED BY <2>2, <2>3
<1>5. ApprovalInHand(o)'
  BY <1>2, <1>4 DEF ApprovalInHand, TrueOf
<1> QED BY <1>2, <1>3, <1>5 DEF SerialInv

LEMMA SerialStep ==
    ASSUME Serial, SoundInv, ProgressInv, SerialInv, [Next]_vars
    PROVE  SerialInv'
<1>1. ASSUME NEW q \in Processes, q \in active, Leave(q) PROVE SerialInv'
  <2>1. active' = {} /\ file' = file /\ lastSaved' = lastSaved
    BY <1>1 DEF Leave, history, SerialInv
  <2> QED BY <2>1 DEF SerialInv, TrueOnDisk, TrueOf
<1>2. ASSUME NEW o \in Operators, ApproveSave(o) PROVE SerialInv'
  <2>1. active' = {} /\ file' = copy[o] /\ lastSaved' = lastSaved /\ ApprovalInHand(o)
    BY <1>2 DEF ApproveSave, history, SerialInv
  <2> QED BY <2>1 DEF SerialInv, TrueOnDisk, ApprovalInHand, TrueOf
<1>3. ASSUME NEW p \in Proxies, InspectReadFails(p) PROVE SerialInv'
  <2>1. active = {} /\ active' = {} /\ file' = file /\ lastSaved' = lastSaved
    BY <1>3 DEF InspectReadFails, MayStart
  <2> QED BY <2>1 DEF SerialInv, TrueOnDisk, TrueOf
<1>4. CASE UNCHANGED vars
  <2>1. UNCHANGED <<file, active, copy, list, todo, approved, lastSaved>>
    BY <1>4 DEF vars, proxyVars, history
  <2>2. TrueOnDisk' /\ \A o \in Operators : ApprovalInHand(o)' <=> ApprovalInHand(o)
    BY <2>1 DEF SerialInv, TrueOnDisk, ApprovalInHand, TrueOf
  <2>3. \A p, k, v : SeenLast(p, k, v)' <=> SeenLast(p, k, v)
    BY <2>1 DEF SeenLast, LookedAt, IsAt, KeyOf
  <2>4. \A p \in Proxies : ListInHand(p)' <=> ListInHand(p)
    BY <2>1, <2>3 DEF ListInHand, TrueOf
  <2> QED BY <2>1, <2>2, <2>4 DEF SerialInv
<1> QED BY <1>1, <1>2, <1>3, <1>4, SerialStart, SerialTool, SerialSave, SerialApprove
        DEF Next, Inspect, lockApprove, InspectSaveFails, ProxyKilled, ApproveFails, Processes

(* Where no two processes overlap, `lock status` is right about the last   *)
(* lists that were saved, whatever was killed or failed on the way         *)
(* (cmd/mcp-audit/lock.go, lockStatus; rugpull.go, Inspect).               *)
THEOREM SerialStatusIsTrue ==
    ASSUME Serial
    PROVE  Spec => []StatusTellsTheTruth
<1>1. SoundInv /\ SerialInv => StatusTellsTheTruth
  <2> SUFFICES ASSUME SoundInv, SerialInv PROVE StatusTellsTheTruth
    OBVIOUS
  <2>1. ASSUME NEW k \in Keys
        PROVE  /\ file[k].pending = IF k \in Drifted THEN lastSaved[k] ELSE None
               /\ k \in Drifted <=> file[k].pending # None
    <3>1. TrueOf(file[k], lastSaved[k])
      BY DEF SerialInv, TrueOnDisk
    <3> QED BY <3>1 DEF TrueOf, Drifted
  <2>2. Pending(file) = Drifted
    BY <2>1 DEF Pending, Drifted
  <2> QED BY <2>1, <2>2 DEF StatusTellsTheTruth, lockStatus
<1>2. SoundInv /\ ProgressInv /\ SerialInv /\ [Next]_vars => SerialInv'
  BY SerialStep
<1> QED BY <1>1, <1>2, SerialInit, SoundInvariant, ProgressInvariant, PTL DEF Spec

(* Where no two processes overlap, the baseline of a tool moves only when  *)
(* an approval of exactly that version is saved. Where they do overlap it  *)
(* is not so: a proxy can put an older baseline back.                      *)
THEOREM SerialBaselineMovesByApproval ==
    ASSUME Serial
    PROVE  Spec => BaselineMovesOnlyByApproval
<1> DEFINE Moves == \A k \in Keys : file[k].hash \notin {None, file'[k].hash} =>
                       \E o \in Operators : ApproveSave(o) /\ <<k, file'[k].hash>> \in approved[o]
<1>1. SerialInv /\ [Next]_vars => Moves
  <2> SUFFICES ASSUME SerialInv, [Next]_vars, NEW k \in Keys, file[k].hash \notin {None, file'[k].hash}
               PROVE  \E o \in Operators : ApproveSave(o) /\ <<k, file'[k].hash>> \in approved[o]
    OBVIOUS
  <2>1. file' # file
    OBVIOUS
  <2>2. ASSUME NEW p \in Proxies, InspectSave(p) PROVE FALSE
    <3>1. file' = copy[p] /\ ListInHand(p)
      BY <2>2 DEF InspectSave, SerialInv
    <3> QED BY <3>1 DEF ListInHand
  <2>3. PICK o \in Operators : ApproveSave(o)
    BY <2>1, <2>2 DEF Next, Inspect, lockApprove, InspectStart, InspectReadFails, InspectTool, AtTool,
        InspectSaveFails, ProxyKilled, Leave, ApproveStart, ApproveFails, vars
  <2>4. file' = copy[o] /\ ApprovalInHand(o)
    BY <2>3 DEF ApproveSave, SerialInv
  <2> QED BY <2>3, <2>4 DEF ApprovalInHand
<1>2. SoundInv /\ ProgressInv /\ SerialInv /\ [Next]_vars => SerialInv'
  BY SerialStep
<1> QED BY <1>1, <1>2, SerialInit, SoundInvariant, ProgressInvariant, PTL
        DEF Spec, BaselineMovesOnlyByApproval
=============================================================================
