------------------------------ MODULE ToolLock ------------------------------
(***************************************************************************)
(* The tool fingerprint store and everybody who rewrites it: the rug-pull  *)
(* detectors of running proxies (internal/policy/rugpull.go) and           *)
(* `mcp-audit lock` commands (internal/policy/lock.go,                     *)
(* cmd/mcp-audit/lock.go). Each is a process of its own, reads the whole   *)
(* file, edits its copy and replaces the file by a rename; nothing locks   *)
(* the file in between. By default all of them share one file.             *)
(*                                                                         *)
(* A version of a tool is its hash; the readable snapshot of a version is  *)
(* the version, and None where none is recorded. Times are left out.       *)
(***************************************************************************)
EXTENDS Naturals, Sequences, FiniteSets, Functions

CONSTANTS
    Proxies, Operators,     \* processes: proxies, people running `mcp-audit lock`
    Servers, Tools, Versions,
    None,                   \* no hash, no snapshot, no argument
    ServerOf,               \* ServerOf[p]: the server name proxy p records under
    Lists,                  \* what a tools/list result can be: <<tool, version>> sequences
    Legacy,                 \* Legacy[k]: what a store from before snapshots has pinned
    Serial,                 \* TRUE: the environment never lets two processes overlap
    MaxLists, MaxCommands   \* bounds of the model: tool lists of each proxy, commands per operator

Keys == Servers \X Tools
Processes == Proxies \union Operators

ASSUME ToolLockAssumption ==
    /\ None \notin Versions \union Servers \union Tools
    /\ Proxies \intersect Operators = {}
    /\ ServerOf \in [Proxies -> Servers]
    /\ Lists \subseteq Seq(Tools \X Versions) \ {<<>>}
    /\ Legacy \in [Keys -> Versions \union {None}]
    /\ Serial \in BOOLEAN
    /\ MaxLists \in [Proxies -> Nat] /\ MaxCommands \in Nat

VARIABLES
    file,       \* the store on disk
    active,     \* the processes between reading the store and being done with it
    copy,       \* copy[q]: the store as process q has read and edited it
    turns,      \* turns[q]: tool lists inspected, commands run
    list, todo, \* the tool list a proxy inspects, and the part still to be looked at
    changes,    \* the changes Inspect reports, as <<tool, old hash, new hash>>
    approved,   \* what the operator's approve has moved in its copy
    advertised, \* history: <<k, v>> some server has advertised
    accepted,   \* history: <<k, v>> pinned at first sight or approved by a person
    lastSaved   \* history: the version of k in the last list whose inspection was saved

history == <<advertised, accepted, lastSaved>>
proxyVars == <<list, todo, changes>>
vars == <<file, active, copy, turns, proxyVars, approved, history>>

-----------------------------------------------------------------------------
(* Fingerprints. A tool that is not recorded has no hash. *)

Hashes == Versions \union {None}
Fingerprint == [hash : Hashes, snap : Hashes, pending : Hashes, pendingSnap : Hashes, changes : Nat]
Store == [Keys -> Fingerprint]

Absent == [hash |-> None, snap |-> None, pending |-> None, pendingSnap |-> None, changes |-> 0]
FirstPin(v) == [Absent EXCEPT !.hash = v, !.snap = v]
ClearPending(fp) == [fp EXCEPT !.pending = None, !.pendingSnap = None]

StillBaseline(fp) == [ClearPending(fp) EXCEPT !.snap = IF @ = None THEN fp.hash ELSE @]

MutantChangedToKeepsFirstPending(fp, v) ==
    IF fp.pending # None THEN fp
    ELSE [fp EXCEPT !.pending = v, !.pendingSnap = v, !.changes = @ + 1]

MutantChangedToMovesBaseline(fp, v) ==
    [fp EXCEPT !.hash = v, !.snap = v, !.changes = @ + 1]

ChangedTo(fp, v) ==
    IF fp.pending = v THEN fp
    ELSE [fp EXCEPT !.pending = v, !.pendingSnap = v, !.changes = @ + 1]

MutantApprovedKeepsPending(fp) == [fp EXCEPT !.hash = fp.pending, !.snap = fp.pendingSnap]

Approved(fp) == ClearPending([fp EXCEPT !.hash = fp.pending, !.snap = fp.pendingSnap])

KeyOf(p, tool) == <<ServerOf[p], tool>>

Init ==
    /\ file = [k \in Keys |-> [Absent EXCEPT !.hash = Legacy[k]]]
    /\ active = {}
    /\ copy = [q \in Processes |-> file]
    /\ turns = [q \in Processes |-> 0]
    /\ list = [p \in Proxies |-> <<>>]
    /\ todo = [p \in Proxies |-> <<>>]
    /\ changes = [p \in Proxies |-> {}]
    /\ approved = [o \in Operators |-> {}]
    /\ advertised = {<<k, Legacy[k]>> : k \in {k \in Keys : Legacy[k] # None}}
    /\ accepted = advertised
    /\ lastSaved = Legacy

(* readStateFile, and what the environment allows. *)
MayStart(q) == q \notin active /\ (Serial => active = {})

(* A process is killed, or its write of the store fails: the file is as it *)
(* was, because the store is replaced by a rename or not at all.           *)
Leave(q) ==
    /\ active' = active \ {q}
    /\ UNCHANGED <<file, copy, turns, approved, history>>

-----------------------------------------------------------------------------
(* Inspect, by proxy p. Its mutex admits one at a time within a process.   *)

Advertise(p, l) ==
    advertised' = advertised \union {<<KeyOf(p, l[i][1]), l[i][2]>> : i \in DOMAIN l}

(* The copy loaded when the proxy started is used for ever. *)
MutantInspectStartStale(p) ==
    /\ MayStart(p) /\ turns[p] < MaxLists[p]
    /\ \E l \in Lists :
        /\ list' = [list EXCEPT ![p] = l]
        /\ todo' = [todo EXCEPT ![p] = l]
        /\ Advertise(p, l)
    /\ active' = active \union {p}
    /\ turns' = [turns EXCEPT ![p] = @ + 1]
    /\ changes' = [changes EXCEPT ![p] = {}]
    /\ UNCHANGED <<file, copy, approved, accepted, lastSaved>>

InspectStart(p) ==
    /\ MayStart(p) /\ turns[p] < MaxLists[p]
    /\ \E l \in Lists :
        /\ list' = [list EXCEPT ![p] = l]
        /\ todo' = [todo EXCEPT ![p] = l]
        /\ Advertise(p, l)
    /\ active' = active \union {p}
    /\ copy' = [copy EXCEPT ![p] = file]
    /\ turns' = [turns EXCEPT ![p] = @ + 1]
    /\ changes' = [changes EXCEPT ![p] = {}]
    /\ UNCHANGED <<file, approved, accepted, lastSaved>>

(* A store that cannot be read ends Inspect before any tool is compared. *)
InspectReadFails(p) ==
    /\ MayStart(p) /\ turns[p] < MaxLists[p]
    /\ \E l \in Lists : Advertise(p, l)
    /\ turns' = [turns EXCEPT ![p] = @ + 1]
    /\ UNCHANGED <<file, active, copy, proxyVars, approved, accepted, lastSaved>>

(* The key leaves out the server, and servers shadow each other. *)
MutantAtToolUnscoped(p, k, v) ==
    /\ p \in active /\ todo[p] # <<>>
    /\ <<k, v>> = <<<<CHOOSE s \in Servers : TRUE, Head(todo[p])[1]>>, Head(todo[p])[2]>>
    /\ todo' = [todo EXCEPT ![p] = Tail(@)]
    /\ UNCHANGED <<file, active, turns, list, approved, advertised, lastSaved>>

(* One turn of the loop over the tools, in its three cases. *)
AtTool(p, k, v) ==
    /\ p \in active /\ todo[p] # <<>>
    /\ <<k, v>> = <<KeyOf(p, Head(todo[p])[1]), Head(todo[p])[2]>>
    /\ todo' = [todo EXCEPT ![p] = Tail(@)]
    /\ UNCHANGED <<file, active, turns, list, approved, advertised, lastSaved>>

FirstSeen(p, k, v) ==
    /\ copy[p][k].hash = None
    /\ copy' = [copy EXCEPT ![p][k] = FirstPin(v)]
    /\ accepted' = accepted \union {<<k, v>>}
    /\ UNCHANGED changes

Unchanged(p, k, v) ==
    /\ copy[p][k].hash = v
    /\ copy' = [copy EXCEPT ![p][k] = StillBaseline(@)]
    /\ UNCHANGED <<changes, accepted>>

(* The change is reported only while it is news. *)
MutantChangedOnce(p, k, v) ==
    /\ copy[p][k].hash \notin {None, v}
    /\ copy' = [copy EXCEPT ![p][k] = ChangedTo(@, v)]
    /\ changes' = IF copy[p][k].pending = v THEN changes
                  ELSE [changes EXCEPT ![p] = @ \union {<<k[2], copy[p][k].hash, v>>}]
    /\ UNCHANGED accepted

Changed(p, k, v) ==
    /\ copy[p][k].hash \notin {None, v}
    /\ copy' = [copy EXCEPT ![p][k] = ChangedTo(@, v)]
    /\ changes' = [changes EXCEPT ![p] = @ \union {<<k[2], copy[p][k].hash, v>>}]
    /\ UNCHANGED accepted

InspectTool(p) ==
    \E k \in Keys, v \in Versions :
        AtTool(p, k, v) /\ (FirstSeen(p, k, v) \/ Unchanged(p, k, v) \/ Changed(p, k, v))

(* The version of each tool that the list of p ends with. *)
SavedBy(p, k) ==
    LET mine == {i \in DOMAIN list[p] : KeyOf(p, list[p][i][1]) = k}
    IN  IF mine = {} THEN lastSaved[k]
        ELSE list[p][CHOOSE i \in mine : \A j \in mine : j <= i][2]

MutantInspectSaveInLoop(p) ==
    /\ p \in active
    /\ file' = copy[p]
    /\ active' = active \ {p}
    /\ lastSaved' = [k \in Keys |-> SavedBy(p, k)]
    /\ UNCHANGED <<copy, turns, proxyVars, approved, advertised, accepted>>

InspectSave(p) ==
    /\ p \in active /\ todo[p] = <<>>
    /\ file' = copy[p]
    /\ active' = active \ {p}
    /\ lastSaved' = [k \in Keys |-> SavedBy(p, k)]
    /\ UNCHANGED <<copy, turns, proxyVars, approved, advertised, accepted>>

(* No changes are returned with the error. *)
MutantSaveFailsSilently(p) ==
    /\ p \in active /\ todo[p] = <<>>
    /\ changes' = [changes EXCEPT ![p] = {}]
    /\ UNCHANGED <<list, todo>>
    /\ Leave(p)

(* The changes are reported all the same. *)
InspectSaveFails(p) ==
    /\ p \in active /\ todo[p] = <<>>
    /\ UNCHANGED proxyVars
    /\ Leave(p)

ProxyKilled(p) ==
    /\ p \in active
    /\ todo' = [todo EXCEPT ![p] = <<>>]
    /\ list' = [list EXCEPT ![p] = <<>>]
    /\ changes' = [changes EXCEPT ![p] = {}]
    /\ Leave(p)

Inspect(p) ==
    \/ InspectStart(p) \/ InspectReadFails(p) \/ InspectTool(p)
    \/ InspectSave(p) \/ InspectSaveFails(p) \/ ProxyKilled(p)

-----------------------------------------------------------------------------
(* `mcp-audit lock`, by operator o. The arguments are [server [tool]], or  *)
(* none for all servers (approve asks for --all).                          *)

Targets == {<<None, None>>} \union (Servers \X (Tools \union {None}))
Selected(target) == {k \in Keys : target[1] \in {None, k[1]} /\ target[2] \in {None, k[2]}}

(* Naming what is not recorded is an error. *)
Known(target) ==
    target = <<None, None>> \/ \E k \in Selected(target) : file[k].hash # None

Pending(store) == {k \in Keys : store[k].pending # None}

(* The exit status of `lock status`, which changes nothing. *)
lockStatus(store) == IF Pending(store) = {} THEN 0 ELSE 1

(* With nothing pending there is nothing to write. *)
ApproveStart(o) ==
    /\ MayStart(o) /\ turns[o] < MaxCommands
    /\ turns' = [turns EXCEPT ![o] = @ + 1]
    /\ \E target \in Targets :
        LET moved == Selected(target) \intersect Pending(file) IN
        /\ Known(target) /\ moved # {}
        /\ copy' = [copy EXCEPT ![o] =
              [k \in Keys |-> IF k \in moved THEN Approved(file[k]) ELSE file[k]]]
        /\ approved' = [approved EXCEPT ![o] = {<<k, file[k].pending>> : k \in moved}]
        /\ accepted' = accepted \union {<<k, file[k].pending>> : k \in moved}
    /\ active' = active \union {o}
    /\ UNCHANGED <<file, proxyVars, advertised, lastSaved>>

ApproveSave(o) ==
    /\ o \in active
    /\ file' = copy[o]
    /\ active' = active \ {o}
    /\ UNCHANGED <<copy, turns, proxyVars, approved, history>>

ApproveFails(o) ==
    /\ o \in active
    /\ UNCHANGED proxyVars
    /\ Leave(o)

lockApprove(o) == ApproveStart(o) \/ ApproveSave(o) \/ ApproveFails(o)

Next ==
    \/ \E p \in Proxies : Inspect(p)
    \/ \E o \in Operators : lockApprove(o)

Spec == Init /\ [][Next]_vars

-----------------------------------------------------------------------------
(* Properties *)

TypeOK ==
    /\ file \in Store
    /\ active \subseteq Processes
    /\ copy \in [Processes -> Store]
    /\ turns \in [Processes -> Nat]
    /\ list \in [Proxies -> Seq(Tools \X Versions)]
    /\ todo \in [Proxies -> Seq(Tools \X Versions)]
    /\ \A p \in Proxies \ active : todo[p] = <<>>
    /\ changes \in [Proxies -> SUBSET (Tools \X Versions \X Versions)]
    /\ approved \in [Operators -> SUBSET (Keys \X Versions)]
    /\ advertised \subseteq Keys \X Versions
    /\ accepted \subseteq Keys \X Versions
    /\ lastSaved \in [Keys -> Hashes]

(* The store on disk and the copies the processes have read and edited. *)
Stores == {file} \union {copy[q] : q \in Processes}

(* A pending version differs from the approved one, has its own snapshot   *)
(* and has been counted, an approved version has its own snapshot or none, *)
(* and a tool without a baseline has nothing else: so status and diff      *)
(* never present a version as waiting for approval that is approved, nor   *)
(* the text of another.                                                    *)
WellFormed(fp) ==
    /\ fp.snap \in {None, fp.hash}
    /\ fp.pendingSnap = fp.pending
    /\ fp.pending # None => fp.pending # fp.hash /\ fp.hash # None /\ fp.changes > 0
    /\ fp.hash = None => fp = Absent

StoreWellFormed == \A st \in Stores : \A k \in Keys : WellFormed(st[k])

(* Whatever processes overlap, what is on record for a tool of a server is *)
(* a version that very server has advertised for it: two servers that both *)
(* have a tool of one name do not shadow each other.                       *)
RecordsWhatWasAdvertised ==
    \A st \in Stores : \A k \in Keys :
        \A v \in {st[k].hash, st[k].pending} \ {None} : <<k, v>> \in advertised

(* Whatever processes overlap, a baseline is a version pinned when nothing *)
(* was on record or one a person approved; a change seen never becomes the *)
(* baseline by being seen.                                                 *)
BaselineWasAccepted ==
    \A st \in Stores : \A k \in Keys :
        st[k].hash # None => <<k, st[k].hash>> \in accepted

(* A tool that Inspect has looked at and does not report had, in every     *)
(* entry of the list, the baseline version of the store Inspect works on:  *)
(* while it is at work and in what it returns, whether or not that store   *)
(* could be saved.                                                         *)
SilenceMeansBaseline ==
    \A p \in Proxies :
        \A i \in 1..(Len(list[p]) - Len(todo[p])) :
            \/ \E c \in changes[p] : c[1] = list[p][i][1] /\ c[3] = list[p][i][2]
            \/ copy[p][KeyOf(p, list[p][i][1])].hash = list[p][i][2]

(* The baseline on disk only ever moves by an approval being saved, and to *)
(* the version that this approval accepted. It is never forgotten either:  *)
(* that would let a changed version in as if seen for the first time.      *)
BaselineMovesOnlyByApproval ==
    [][\A k \in Keys : file[k].hash \notin {None, file'[k].hash} =>
          \E o \in Operators : ApproveSave(o) /\ <<k, file'[k].hash>> \in approved[o]]_vars

(* What `lock status` says is true of the last lists that were saved: it   *)
(* exits 0 exactly if every tool on record was as approved when it was     *)
(* last advertised, and what is pending is the version it had then.        *)
Drifted == {k \in Keys : file[k].hash # None /\ file[k].hash # lastSaved[k]}

StatusTellsTheTruth ==
    /\ lockStatus(file) = 0 <=> Drifted = {}
    /\ \A k \in Keys : file[k].pending = IF k \in Drifted THEN lastSaved[k] ELSE None
=============================================================================
