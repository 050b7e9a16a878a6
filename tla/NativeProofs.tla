----------------------------- MODULE NativeProofs -----------------------------
(* What NativePublish promises, for any people, contents, requests and     *)
(* ecosystems: its inductive invariant, and the theorems that rest on it.  *)
EXTENDS NativePublish, TLAPS

Release == [id : Push \cup {None}, status : Readable \cup {"absent", "quarantine", "scanning"},
            yanked : BOOLEAN, deprecated : BOOLEAN]

(* How far a request can be: before it has a row, and working on one.      *)
Before == {"idle", "create", "recheck", "version", "find", "reload", "add"}
AtRow == {"inspect", "store", "drop", "record", "describe", "publish", "tag", "apply", "finalize"}

Request == [pc : Before \cup AtRow \cup {"done"}, user : User \cup {None}, file : File,
            content : Content \cup {None}, row : Push \cup {None}, seen : Release,
            entitled : BOOLEAN]
Management == [pc : {"idle", "yank", "unyank", "unlist", "relist", "hide", "show"},
               row : Push \cup {None}]

(* The steps a request of the ecosystem goes through.                      *)
OneFileSteps == {"create", "recheck", "version", "store", "drop", "record", "describe",
                 "publish", "tag"}
ManyFilesSteps == {"create", "recheck", "find", "reload", "add", "inspect", "store", "drop",
                   "record", "apply", "finalize"}
Steps == {"idle", "done"} \cup (IF SingleFile THEN OneFileSteps ELSE ManyFilesSteps)

(* The ecosystems with one file in which nothing but the publication makes *)
(* a version readable; a gem can be yanked before it is there.             *)
Plain == ecosystem \in {"npm", "cargo", "nuget", "composer"}

(* What a request knows, and what the row it works on looks like.  Where a *)
(* version is a single file, the row is its own until it is done with it.  *)
RequestOK(p) ==
    /\ push[p] \in Request
    /\ push[p].pc \in Steps
    /\ push[p].pc # "idle" => push[p].user \in User /\ push[p].content \in Content
    /\ push[p].pc \in AtRow => push[p].row \in Push
    /\ At(p, "record") => Key(push[p].row, push[p].file, push[p].content) \in objects
    /\ At(p, "drop") => ecosystem \in Refusing \ {"pypi"}
    /\ Rechecking /\ push[p].pc \notin {"idle", "recheck", "done"} => push[p].entitled

OwnerOK(p) ==
    SingleFile =>
        /\ push[p].file = "main"
        /\ push[p].pc \in AtRow => push[p].row = p /\ release.id = p
        /\ push[p].pc \in {"store", "drop", "record"} => artifacts = NoFiles
        /\ push[p].pc \in {"describe", "publish", "tag"} => artifacts["main"] # None

(* The row of the version, and that its files are stored.                  *)
RowOK ==
    /\ ~Exists => release = NoRelease /\ artifacts = NoFiles
    /\ Exists => /\ release.status # "absent"
                 /\ push[release.id].pc \notin Before
                 /\ Rechecking => push[release.id].entitled
    /\ \A f \in File : artifacts[f] # None => Key(release.id, f, artifacts[f]) \in objects
    /\ release.yanked \/ release.deprecated => release.status \in Readable
    /\ tag # None => tag = release.id /\ release.status \in Readable

OneFileOK ==
    /\ SingleFile => artifacts["extra"] = None /\ artifacts["sum"] = None
    /\ Plain /\ release.status \in Readable \cup {"scanning"} => artifacts["main"] # None
    /\ SingleFile /\ ~spoilt /\ release.status \in {"quarantine", "scanning"} =>
          push[release.id].pc \in {"store", "drop", "record", "describe", "publish"}

ManageOK ==
    \A m \in Manager :
        /\ manage[m] \in Management
        /\ manage[m].pc # "idle" => /\ ecosystem \in {"cargo", "nuget"}
                                    /\ manage[m].row = release.id
                                    /\ release.status \in Readable

(* A file that was served is the file that is recorded; a Maven version    *)
(* whose first file is refused takes the others along.                     *)
FirstOK ==
    "maven" \notin Refusing => \A f \in File : first[f] \in {None, artifacts[f]}

CoreInv ==
    /\ TypeOK
    /\ \A p \in Push : RequestOK(p)
    /\ \A p \in Push : OwnerOK(p)
    /\ RowOK
    /\ OneFileOK
    /\ ManageOK

IInv == CoreInv /\ FirstOK

-----------------------------------------------------------------------------

\* Before anything is published the invariant holds.
LEMMA InitEstablishes == Init => IInv
<1> SUFFICES ASSUME Init PROVE IInv
    OBVIOUS
<1> USE NativeAssumption DEF Init, RegistryInit
<1>1. TypeOK
    BY DEF TypeOK, NoRelease, NoFiles
<1>2. ASSUME NEW p \in Push PROVE RequestOK(p) /\ OwnerOK(p)
    <2>1. push[p] = NoPush /\ NoRelease \in Release
        BY DEF NoRelease, Release
    <2> QED
        BY <2>1 DEF RequestOK, OwnerOK, At, NoPush, Request, Before, AtRow, Steps, File
<1>3. RowOK /\ OneFileOK
    BY DEF RowOK, OneFileOK, Exists, NoRelease, NoFiles, File, Readable
<1>4. ManageOK
    BY DEF ManageOK, NoManage, Management
<1> QED
    BY <1>1, <1>2, <1>3, <1>4 DEF IInv, CoreInv, FirstOK, NoFiles

-----------------------------------------------------------------------------
(* The steps that leave the row and its files in place: what they do to    *)
(* the status, to the requests and to the managers.                        *)

RowMoves ==
    /\ release' \in Release
    /\ release'.id = release.id
    /\ ~Exists => release' = release
    /\ Exists => release'.status # "absent"
    /\ release'.yanked \/ release'.deprecated => release'.status \in Readable
    /\ release.status \in Readable => release'.status \in Readable
    /\ release'.status \in {"quarantine", "scanning"} => release.status \in {"quarantine", "scanning"}
    /\ Plain /\ release'.status \in Readable \cup {"scanning"} => artifacts["main"] # None
    /\ tag' # None => \/ tag' = tag
                      \/ tag' = release.id /\ release'.status \in Readable

PushMoves(q) ==
    \/ push'[q] = push[q]
    \/ /\ RequestOK(q)'
       /\ OwnerOK(q)'
       /\ release.id = q =>
             /\ push'[q].pc \notin Before
             /\ Rechecking => push'[q].entitled
             /\ SingleFile /\ ~spoilt' /\ release'.status \in {"quarantine", "scanning"} =>
                   push'[q].pc \in {"store", "drop", "record", "describe", "publish"}

ManageMoves(m) ==
    \/ manage'[m] = manage[m]
    \/ /\ manage'[m] \in Management
       /\ manage'[m].pc # "idle" => /\ ecosystem \in {"cargo", "nuget"}
                                    /\ manage'[m].row = release.id
                                    /\ release'.status \in Readable

\* A step that keeps the row, its files and the objects preserves the invariant.
LEMMA Moves ==
    ASSUME CoreInv, TypeOK', ecosystem' = ecosystem, artifacts' = artifacts,
           objects \subseteq objects', spoilt => spoilt', RowMoves,
           \A q \in Push : PushMoves(q), \A m \in Manager : ManageMoves(m)
    PROVE  CoreInv'
<1> USE NativeAssumption
<1>1. SingleFile' = SingleFile /\ Rechecking' = Rechecking /\ Plain' = Plain
    BY DEF SingleFile, Rechecking, Plain
<1>2. ASSUME NEW q \in Push PROVE RequestOK(q)'
    BY <1>1 DEF CoreInv, RequestOK, PushMoves, At, Steps
<1>3. ASSUME NEW q \in Push PROVE OwnerOK(q)'
    BY <1>1 DEF CoreInv, OwnerOK, PushMoves, RowMoves
<1>4. Exists' = Exists /\ (Exists => release.id \in Push)
    BY DEF Exists, RowMoves, CoreInv, TypeOK
<1>5. RowOK'
    BY <1>1, <1>4 DEF CoreInv, RowOK, RowMoves, PushMoves
<1>6. OneFileOK'
    <2>1. release'.id = None => release'.status = "absent"
        BY <1>4 DEF CoreInv, RowOK, RowMoves, NoRelease, Exists
    <2> QED
        BY <1>1, <1>4, <2>1 DEF CoreInv, OneFileOK, RowMoves, PushMoves, Exists
<1>7. ManageOK'
    BY DEF CoreInv, ManageOK, ManageMoves, RowMoves
<1> QED
    BY <1>2, <1>3, <1>5, <1>6, <1>7 DEF CoreInv

\* The row as it is keeps what RowMoves asks for.
LEMMA RowStays ==
    ASSUME CoreInv, UNCHANGED rows
    PROVE  RowMoves
<1>1. release \in Release
    BY DEF CoreInv, TypeOK, Release
<1> QED
    BY <1>1 DEF rows, RowMoves, CoreInv, RowOK, OneFileOK

\* A step of one request alone preserves the invariant if the request's new state
\* is one it may be in.
LEMMA RequestMoves ==
    ASSUME CoreInv, NEW p \in Push, NEW r,
           UNCHANGED <<registry, manage>>, spoilt => spoilt',
           push' = [push EXCEPT ![p] = r],
           RequestOK(p)', OwnerOK(p)',
           release.id = p =>
              /\ r.pc \notin Before
              /\ Rechecking => r.entitled
              /\ SingleFile /\ ~spoilt' /\ release.status \in {"quarantine", "scanning"} =>
                    r.pc \in {"store", "drop", "record", "describe", "publish"}
    PROVE  CoreInv'
<1>1. TypeOK'
    BY DEF CoreInv, TypeOK, registry, names, rows
<1>2. RowMoves
    BY RowStays DEF registry
<1>3. ASSUME NEW q \in Push PROVE PushMoves(q)
    BY <1>1 DEF PushMoves, CoreInv, TypeOK, registry, rows
<1>4. \A m \in Manager : ManageMoves(m)
    BY DEF ManageMoves
<1> QED
    BY <1>1, <1>2, <1>3, <1>4, Moves DEF registry, names, rows

\* What can be said of the request that takes a step.
LEMMA RequestFacts ==
    ASSUME CoreInv, NEW p \in Push
    PROVE  /\ push[p] \in Request /\ push[p].pc \in Steps /\ p # None
           /\ DOMAIN push = Push
           /\ release \in Release
BY NativeAssumption DEF CoreInv, RequestOK, TypeOK, Release

\* The step a request takes once it may write to the package.
First == IF SingleFile THEN "version" ELSE "find"

\* Resolve lets in who may write to the package.
LEMMA ResolveStep ==
    ASSUME CoreInv, NEW p \in Push, NEW f \in File, Resolve(p, f, First), SingleFile => f = "main"
    PROVE  CoreInv'
<1>1. PICK u \in User, c \in Content :
        push' = [push EXCEPT ![p] =
                    [pc |-> IF package = None THEN "create" ELSE First, user |-> u,
                     file |-> f, content |-> c, row |-> None, seen |-> NoRelease,
                     entitled |-> TRUE]]
    BY DEF Resolve
<1>2. At(p, "idle") /\ UNCHANGED <<registry, manage, spoilt>>
    BY DEF Resolve, OnlyPush
<1>3. push'[p] = [pc |-> IF package = None THEN "create" ELSE First, user |-> u,
                  file |-> f, content |-> c, row |-> None, seen |-> NoRelease, entitled |-> TRUE]
    BY <1>1, RequestFacts
<1>4. RequestOK(p)'
    <2>1. push'[p] \in Request
        BY <1>3 DEF Request, First, Before, Release, NoRelease
    <2>2. push'[p].pc \in Steps'
        BY <1>2, <1>3 DEF First, Steps, OneFileSteps, ManyFilesSteps, SingleFile, registry, names
    <2> QED
        BY <1>3, <2>1, <2>2 DEF RequestOK, First, At, AtRow
<1>5. OwnerOK(p)'
    BY <1>2, <1>3 DEF OwnerOK, AtRow, First, SingleFile, registry, names
<1>6. release.id # p
    BY <1>2, RequestFacts DEF CoreInv, RowOK, Exists, At, Before
<1> QED
    BY <1>1, <1>2, <1>4, <1>5, <1>6, RequestMoves

\* The owner of the package is checked again after a lost race.
LEMMA RecheckStep ==
    ASSUME CoreInv, NEW p \in Push, Recheck(p, First)
    PROVE  CoreInv'
<1> DEFINE may == push[p].user \in writers
<1>1. PICK r : r = [push[p] EXCEPT !.pc = IF may THEN First ELSE "done", !.entitled = may]
    OBVIOUS
<1>2. At(p, "recheck") /\ UNCHANGED <<registry, manage, spoilt>>
    BY DEF Recheck, OnlyPush
<1>3. push' = [push EXCEPT ![p] = r] /\ push'[p] = r
    BY <1>1, RequestFacts DEF Recheck
<1>4. /\ r = [pc |-> IF may THEN First ELSE "done", user |-> push[p].user, file |-> push[p].file,
              content |-> push[p].content, row |-> push[p].row, seen |-> push[p].seen,
              entitled |-> may]
    BY <1>1, RequestFacts DEF Request
<1>5. RequestOK(p)'
    <2>1. r \in Request
        BY <1>4, RequestFacts DEF Request, First, Before
    <2>2. r.pc \in Steps'
        BY <1>2, <1>4 DEF First, Steps, OneFileSteps, ManyFilesSteps, SingleFile, registry, names
    <2>3. r.pc \in {"version", "find", "done"} /\ (r.pc # "done" => r.entitled)
        BY <1>4 DEF First
    <2>4. r.user \in User /\ r.content \in Content
        BY <1>2, <1>4 DEF CoreInv, RequestOK, At
    <2> QED
        BY <1>3, <2>1, <2>2, <2>3, <2>4 DEF RequestOK, At, AtRow
<1>6. OwnerOK(p)'
    BY <1>2, <1>3, <1>4 DEF OwnerOK, AtRow, First, SingleFile, registry, names, CoreInv, At
<1>7. release.id # p
    BY <1>2, RequestFacts DEF CoreInv, RowOK, Exists, At, Before
<1> QED
    BY <1>2, <1>3, <1>5, <1>6, <1>7, RequestMoves

\* A request that goes on to another of its steps: what holds of it on the way.
LEMMA GotoMoves ==
    ASSUME CoreInv, NEW p \in Push, NEW pc, Goto(p, pc),
           UNCHANGED <<registry, manage>>, spoilt => spoilt',
           push[p].pc # "idle", pc \in Steps,
           pc \in AtRow => push[p].row \in Push,
           pc # "record",
           pc = "drop" => ecosystem \in Refusing \ {"pypi"},
           Rechecking /\ pc \notin {"idle", "recheck", "done"} => push[p].entitled,
           SingleFile => /\ pc \in AtRow => push[p].pc \in AtRow
                         /\ pc \in {"store", "drop"} => artifacts = NoFiles
                         /\ pc \in {"describe", "publish", "tag"} => artifacts["main"] # None,
           push[p].pc \notin Before => pc \notin Before,
           SingleFile /\ ~spoilt' /\ release.id = p /\ release.status \in {"quarantine", "scanning"} =>
              pc \in {"store", "drop", "record", "describe", "publish"}
    PROVE  CoreInv'
<1>1. PICK r : r = [push[p] EXCEPT !.pc = pc]
    OBVIOUS
<1>2. push' = [push EXCEPT ![p] = r] /\ push'[p] = r
    BY <1>1, RequestFacts DEF Goto
<1>3. r = [pc |-> pc, user |-> push[p].user, file |-> push[p].file,
           content |-> push[p].content, row |-> push[p].row, seen |-> push[p].seen,
           entitled |-> push[p].entitled]
    BY <1>1, RequestFacts DEF Request
<1>4. pc \in Before \cup AtRow \cup {"done"}
    BY DEF Steps, OneFileSteps, ManyFilesSteps, Before, AtRow
<1>5. RequestOK(p)'
    <2>1. r \in Request
        BY <1>3, <1>4, RequestFacts DEF Request
    <2>2. pc \in Steps' /\ Rechecking' = Rechecking
        BY DEF Steps, OneFileSteps, ManyFilesSteps, SingleFile, Rechecking, registry, names
    <2> QED
        BY <1>2, <1>3, <2>1, <2>2 DEF RequestOK, CoreInv, At, registry, names
<1>6. OwnerOK(p)'
    BY <1>2, <1>3 DEF OwnerOK, SingleFile, registry, names, rows, CoreInv
<1>7. release.id = p => /\ push[p].pc \notin Before
                        /\ Rechecking => push[p].entitled
    BY RequestFacts DEF CoreInv, RowOK, Exists
<1> QED
    BY <1>2, <1>3, <1>5, <1>6, <1>7, RequestMoves

\* A request that is cut short has nothing left to do, and its version may stay
\* where it is.
LEMMA CutShortStep ==
    ASSUME CoreInv, NEW p \in Push, CutShort(p)
    PROVE  CoreInv'
BY GotoMoves DEF CutShort, Steps, AtRow, Before

\* A refused object: the version goes if it is a single file.
LEMMA StoreFailsStep ==
    ASSUME CoreInv, NEW p \in Push, NEW pc, StoreFails(p, pc), pc \in {"drop", "done"},
           SingleFile => pc = "drop", pc = "drop" => ecosystem # "pypi"
    PROVE  CoreInv'
<1>1. pc \in Steps
    BY DEF Steps, OneFileSteps, ManyFilesSteps
<1>2. push[p].pc = "store" /\ Goto(p, pc) /\ ecosystem \in Refusing /\ UNCHANGED <<registry, manage, spoilt>>
    BY DEF StoreFails, At, OnlyPush
<1>3. push[p].row \in Push /\ (Rechecking => push[p].entitled)
    BY <1>2 DEF CoreInv, RequestOK, AtRow
<1>4. SingleFile => artifacts = NoFiles
    BY <1>2 DEF CoreInv, OwnerOK
<1> QED
    BY <1>1, <1>2, <1>3, <1>4, GotoMoves DEF AtRow, Before

\* What the look at a file leads to.
LEMMA InspectStep ==
    ASSUME CoreInv, NEW p \in Push, NEW pc, At(p, "inspect"), Goto(p, pc), OnlyPush,
           pc \in Steps, pc \in {"store", "apply", "finalize", "done"}
    PROVE  CoreInv'
<1>1. ~SingleFile
    BY DEF CoreInv, RequestOK, At, Steps, OneFileSteps
<1>2. push[p].row \in Push /\ (Rechecking => push[p].entitled)
    BY DEF CoreInv, RequestOK, AtRow, At
<1> QED
    BY <1>1, <1>2, GotoMoves DEF At, OnlyPush, AtRow, Before

\* The search for a version that takes several files.
LEMMA FindStep ==
    ASSUME CoreInv, NEW p \in Push, NEW seen \in Release, At(p, "find") \/ At(p, "reload"), Exists,
           push' = [push EXCEPT ![p].pc = "inspect", ![p].row = release.id, ![p].seen = seen],
           OnlyPush
    PROVE  CoreInv'
<1>1. PICK r : r = [push[p] EXCEPT !.pc = "inspect", !.row = release.id, !.seen = seen]
    OBVIOUS
<1>2. push' = [push EXCEPT ![p] = r] /\ push'[p] = r
    BY <1>1, RequestFacts
<1>3. r = [pc |-> "inspect", user |-> push[p].user, file |-> push[p].file,
           content |-> push[p].content, row |-> release.id, seen |-> seen,
           entitled |-> push[p].entitled]
    BY <1>1, RequestFacts DEF Request
<1>4. ~SingleFile /\ release.id \in Push
    BY RequestFacts DEF CoreInv, RequestOK, At, Steps, OneFileSteps, Exists, Release
<1>5. RequestOK(p)'
    <2>1. r \in Request
        BY <1>3, <1>4, RequestFacts DEF Request, AtRow
    <2>2. "inspect" \in Steps' /\ Rechecking' = Rechecking
        BY <1>4 DEF Steps, ManyFilesSteps, SingleFile, Rechecking, OnlyPush, registry, names
    <2> QED
        BY <1>2, <1>3, <1>4, <2>1, <2>2 DEF RequestOK, CoreInv, At
<1>6. OwnerOK(p)'
    BY <1>4 DEF OwnerOK, SingleFile, OnlyPush, registry, names
<1>7. release.id # p
    BY DEF CoreInv, RowOK, Exists, At, Before
<1> QED
    BY <1>2, <1>4, <1>5, <1>6, <1>7, RequestMoves DEF OnlyPush

\* A version that is not there yet is added, or ends the request.
LEMMA FindVersionStep ==
    ASSUME CoreInv, NEW p \in Push, NEW next, FindVersion(p, next, "inspect"), next \in {"add", "done"}
    PROVE  CoreInv'
<1>1. CASE Exists
    BY <1>1, FindStep, RequestFacts DEF FindVersion
<1>2. CASE ~Exists
    <2>1. PICK pc \in {"add", "done"} : Goto(p, pc)
        BY <1>2 DEF FindVersion
    <2>2. ~SingleFile
        BY DEF FindVersion, CoreInv, RequestOK, At, Steps, OneFileSteps
    <2>3. pc \in Steps
        BY <2>1, <2>2 DEF Steps, ManyFilesSteps
    <2>4. release.id # p
        BY <1>2, RequestFacts DEF Exists
    <2>5. Rechecking => push[p].entitled
        BY DEF FindVersion, CoreInv, RequestOK, At
    <2> QED
        BY <1>2, <2>1, <2>2, <2>3, <2>4, <2>5, GotoMoves DEF FindVersion, At, OnlyPush, Before, AtRow
<1> QED
    BY <1>1, <1>2

\* The rows of all requests stay typed when one of them goes on.
LEMMA OthersStay ==
    ASSUME CoreInv, NEW p \in Push, NEW pc, Goto(p, pc),
           ecosystem' = ecosystem, objects \subseteq objects',
           push[p].pc # "idle", pc \in Steps,
           pc \in AtRow => push[p].row \in Push,
           pc = "record" => Key(push[p].row, push[p].file, push[p].content) \in objects',
           pc = "drop" => ecosystem \in Refusing \ {"pypi"},
           Rechecking /\ pc \notin {"idle", "recheck", "done"} => push[p].entitled
    PROVE  /\ push'[p] = [push[p] EXCEPT !.pc = pc]
           /\ \A q \in Push : q # p => push'[q] = push[q]
           /\ DOMAIN push' = Push
           /\ SingleFile' = SingleFile /\ Rechecking' = Rechecking /\ Plain' = Plain
           /\ \A q \in Push : RequestOK(q)'
<1>1. PICK r : r = [push[p] EXCEPT !.pc = pc]
    OBVIOUS
<1>2. push' = [push EXCEPT ![p] = r] /\ push'[p] = r
    BY <1>1, RequestFacts DEF Goto
<1>3. r = [pc |-> pc, user |-> push[p].user, file |-> push[p].file,
           content |-> push[p].content, row |-> push[p].row, seen |-> push[p].seen,
           entitled |-> push[p].entitled]
    BY <1>1, RequestFacts DEF Request
<1>4. pc \in Before \cup AtRow \cup {"done"}
    BY DEF Steps, OneFileSteps, ManyFilesSteps, Before, AtRow
<1>5. SingleFile' = SingleFile /\ Rechecking' = Rechecking /\ Plain' = Plain /\ Steps' = Steps
    BY DEF SingleFile, Rechecking, Plain, Steps
<1>6. RequestOK(p)'
    <2>1. r \in Request
        BY <1>3, <1>4, RequestFacts DEF Request
    <2> QED
        BY <1>2, <1>3, <1>5, <2>1 DEF RequestOK, CoreInv, At
<1>7. ASSUME NEW q \in Push, q # p PROVE push'[q] = push[q] /\ RequestOK(q)'
    <2>1. push'[q] = push[q]
        BY <1>2, <1>7
    <2> QED
        BY <1>5, <2>1 DEF RequestOK, CoreInv, At
<1>8. DOMAIN push' = Push
    BY <1>2, RequestFacts
<1> QED
    BY <1>1, <1>2, <1>5, <1>6, <1>7, <1>8

\* artifact_put: the object is there before the row that names it.
LEMMA StoreStep ==
    ASSUME CoreInv, NEW p \in Push, Store(p, "record")
    PROVE  CoreInv'
<1>1. /\ push[p].pc = "store" /\ Goto(p, "record") /\ UNCHANGED <<names, rows, manage, spoilt>>
      /\ objects' = objects \cup {Key(push[p].row, push[p].file, push[p].content)}
    BY DEF Store, At
<1>2. /\ push[p].row \in Push /\ push[p].content \in Content /\ push[p].file \in File
      /\ Rechecking => push[p].entitled
    BY <1>1, RequestFacts DEF CoreInv, RequestOK, AtRow, Request
<1>3. "record" \in Steps
    BY DEF Steps, OneFileSteps, ManyFilesSteps
<1>4. /\ push'[p] = [push[p] EXCEPT !.pc = "record"]
      /\ \A q \in Push : q # p => push'[q] = push[q]
      /\ DOMAIN push' = Push /\ SingleFile' = SingleFile
      /\ \A q \in Push : RequestOK(q)'
    BY <1>1, <1>2, <1>3, OthersStay DEF names
<1>5. push'[p].pc = "record" /\ push'[p].row = push[p].row /\ push'[p].file = push[p].file
      /\ push'[p].entitled = push[p].entitled
    BY <1>4, RequestFacts DEF Request
<1>6. TypeOK'
    BY <1>1, <1>2, <1>4 DEF CoreInv, TypeOK, Key, names, rows
<1>7. RowMoves
    BY <1>1, RowStays
<1>8. ASSUME NEW q \in Push PROVE PushMoves(q)
    <2>1. CASE q = p
        <3>1. OwnerOK(p)'
            BY <1>1, <1>4, <1>5 DEF OwnerOK, CoreInv, AtRow, rows
        <3> QED
            BY <1>1, <1>2, <1>4, <1>5, <2>1, <3>1 DEF PushMoves, Before
    <2>2. CASE q # p
        BY <1>4, <2>2 DEF PushMoves
    <2> QED
        BY <2>1, <2>2
<1> QED
    BY <1>1, <1>6, <1>7, <1>8, Moves DEF names, rows, ManageMoves

\* The metadata of a version, or the attempt to write it.
LEMMA DescribeStep ==
    ASSUME CoreInv, NEW p \in Push, Describe(p, "publish")
    PROVE  CoreInv'
<1>1. /\ push[p].pc = "describe" /\ Goto(p, "publish")
      /\ UNCHANGED <<names, release, artifacts, tag, objects, manage, spoilt>>
      /\ extras' \in {"listed", extras}
    BY DEF Describe, At
<1>2. SingleFile
    BY <1>1 DEF CoreInv, RequestOK, Steps, ManyFilesSteps
<1>3. "publish" \in Steps /\ push[p].row \in Push /\ (Rechecking => push[p].entitled)
    BY <1>1, <1>2 DEF CoreInv, RequestOK, AtRow, Steps, OneFileSteps
<1>4. /\ push'[p] = [push[p] EXCEPT !.pc = "publish"]
      /\ \A q \in Push : q # p => push'[q] = push[q]
      /\ DOMAIN push' = Push /\ SingleFile' = SingleFile
      /\ \A q \in Push : RequestOK(q)'
    BY <1>1, <1>3, OthersStay DEF names
<1>5. push'[p].pc = "publish" /\ push'[p].row = push[p].row /\ push'[p].file = push[p].file
      /\ push'[p].entitled = push[p].entitled
    BY <1>4, RequestFacts DEF Request
<1>6. TypeOK'
    BY <1>1, <1>4 DEF CoreInv, TypeOK, names
<1>7. RowMoves
    BY <1>1, RequestFacts DEF RowMoves, CoreInv, RowOK, OneFileOK
<1>8. ASSUME NEW q \in Push PROVE PushMoves(q)
    <2>1. CASE q = p
        <3>1. OwnerOK(p)'
            BY <1>1, <1>2, <1>4, <1>5 DEF OwnerOK, CoreInv, AtRow
        <3> QED
            BY <1>1, <1>3, <1>4, <1>5, <2>1, <3>1 DEF PushMoves, Before
    <2>2. CASE q # p
        BY <1>4, <2>2 DEF PushMoves
    <2> QED
        BY <2>1, <2>2
<1> QED
    BY <1>1, <1>6, <1>7, <1>8, Moves DEF names, ManageMoves

\* The winner of the race creates the package for its user; the loser goes on in the
\* winner's, after another check where the adapter has one.
LEMMA CreatePackageStep ==
    ASSUME CoreInv, NEW p \in Push, NEW raced, CreatePackage(p, First, raced),
           raced \in {First, "recheck"}, Rechecking => raced = "recheck", ~SingleFile => raced = "recheck"
    PROVE  CoreInv'
<1>1. At(p, "create") /\ UNCHANGED <<rows, objects, manage, spoilt>> /\ ecosystem' = ecosystem
    BY DEF CreatePackage, names
<1>2. push[p].user \in User /\ push[p].content \in Content /\ push[p].entitled \in BOOLEAN
    BY <1>1, RequestFacts DEF CoreInv, RequestOK, At, Request
<1>3. release.id # p
    BY <1>1, RequestFacts DEF CoreInv, RowOK, Exists, At, Before
<1>4. CASE package = None
    <2>1. /\ Goto(p, First) /\ package' = push[p].user /\ writers' = {push[p].user}
        BY <1>4 DEF CreatePackage
    <2>2. First \in Steps /\ (Rechecking => push[p].entitled)
        BY <1>1 DEF First, Steps, OneFileSteps, ManyFilesSteps, CoreInv, RequestOK, At
    <2>3. /\ push'[p] = [push[p] EXCEPT !.pc = First]
          /\ \A q \in Push : q # p => push'[q] = push[q]
          /\ DOMAIN push' = Push /\ SingleFile' = SingleFile
          /\ \A q \in Push : RequestOK(q)'
        BY <1>1, <2>1, <2>2, OthersStay DEF At, First, AtRow
    <2>4. push'[p].pc = First /\ push'[p].file = push[p].file
        BY <2>3, RequestFacts DEF Request
    <2>5. TypeOK'
        BY <1>1, <1>2, <2>1, <2>3 DEF CoreInv, TypeOK, rows
    <2>6. ASSUME NEW q \in Push PROVE PushMoves(q)
        <3>1. OwnerOK(p)'
            BY <2>3, <2>4 DEF OwnerOK, CoreInv, AtRow, First
        <3> QED
            BY <1>3, <2>3, <3>1 DEF PushMoves
    <2> QED
        BY <1>1, <2>5, <2>6, RowStays, Moves DEF rows, ManageMoves
<1>5. CASE package # None
    <2>1. PICK r : r = [push[p] EXCEPT !.pc = raced, !.entitled = FALSE]
        OBVIOUS
    <2>2. push' = [push EXCEPT ![p] = r] /\ push'[p] = r /\ UNCHANGED registry
        BY <1>1, <1>5, <2>1, RequestFacts DEF CreatePackage, registry
    <2>3. r = [pc |-> raced, user |-> push[p].user, file |-> push[p].file,
               content |-> push[p].content, row |-> push[p].row, seen |-> push[p].seen,
               entitled |-> FALSE]
        BY <2>1, RequestFacts DEF Request
    <2>4. RequestOK(p)'
        <3>1. r \in Request
            BY <2>3, RequestFacts DEF Request, First, Before
        <3>2. raced \in Steps' /\ raced \in {"version", "find", "recheck"} /\ Rechecking' = Rechecking
            BY <2>2 DEF First, Steps, OneFileSteps, ManyFilesSteps, SingleFile, Rechecking, registry, names
        <3> QED
            BY <1>2, <2>2, <2>3, <3>1, <3>2 DEF RequestOK, At, AtRow
    <2>5. OwnerOK(p)'
        BY <2>2, <2>3 DEF OwnerOK, SingleFile, registry, names, CoreInv, AtRow, First
    <2> QED
        BY <1>1, <1>3, <2>2, <2>4, <2>5, RequestMoves
<1> QED
    BY <1>4, <1>5

\* The row InsertVersion and AddVersion insert.
LEMMA NewRelease ==
    ASSUME NEW p \in Push
    PROVE  /\ [NoRelease EXCEPT !.id = p, !.status = "quarantine"] =
                  [id |-> p, status |-> "quarantine", yanked |-> FALSE, deprecated |-> FALSE]
           /\ [NoRelease EXCEPT !.id = p, !.status = "quarantine"] \in Release
<1>1. [NoRelease EXCEPT !.id = p, !.status = "quarantine"] =
        [id |-> p, status |-> "quarantine", yanked |-> FALSE, deprecated |-> FALSE]
    <2>1. PICK none : none = NoRelease
        OBVIOUS
    <2>2. none \in Release
        BY <2>1 DEF NoRelease, Release
    <2>3. PICK r : r = [none EXCEPT !.id = p, !.status = "quarantine"]
        OBVIOUS
    <2>4. r = [id |-> p, status |-> "quarantine", yanked |-> none.yanked,
               deprecated |-> none.deprecated]
        BY <2>2, <2>3 DEF Release
    <2>5. none.yanked = FALSE /\ none.deprecated = FALSE
        BY <2>1 DEF NoRelease
    <2> QED
        BY <2>1, <2>3, <2>4, <2>5, Zenon
<1>2. [id |-> p, status |-> "quarantine", yanked |-> FALSE, deprecated |-> FALSE] \in Release
    BY DEF Release
<1> QED
    BY <1>1, <1>2

\* A new row of a version has no file yet, no tag and no manager; the request that
\* inserts it had write access when it last looked.
LEMMA NewRow ==
    ASSUME CoreInv, NEW p \in Push, NEW r \in Request, ~Exists,
           push[p].pc \in {"version", "add"},
           release' = [id |-> p, status |-> "quarantine", yanked |-> FALSE, deprecated |-> FALSE],
           push' = [push EXCEPT ![p] = r],
           r.pc = (IF SingleFile THEN "store" ELSE "inspect"), r.row = p,
           r.user = push[p].user, r.content = push[p].content, r.file = push[p].file,
           r.entitled = push[p].entitled,
           UNCHANGED <<names, artifacts, extras, tag, objects, manage, spoilt>>
    PROVE  CoreInv'
<1>1. /\ release'.id = p /\ release'.status = "quarantine"
      /\ release'.yanked = FALSE /\ release'.deprecated = FALSE
    OBVIOUS
<1>2. release = NoRelease /\ artifacts = NoFiles /\ release.id = None /\ tag = None
    BY RequestFacts, NativeAssumption DEF CoreInv, RowOK, Exists, NoRelease, TypeOK
<1>3. /\ SingleFile' = SingleFile /\ Rechecking' = Rechecking /\ Plain' = Plain /\ Steps' = Steps
      /\ Exists' /\ release'.id = p
    BY <1>1, RequestFacts DEF SingleFile, Rechecking, Plain, Steps, Exists, names
<1>4. push'[p] = r /\ \A q \in Push : q # p => push'[q] = push[q]
    BY RequestFacts
<1>5. TypeOK'
    <2>1. DOMAIN push' = Push /\ manage' = manage
        BY RequestFacts
    <2>2. release' \in [id : Push \cup {None}, yanked : BOOLEAN, deprecated : BOOLEAN,
                        status : Readable \cup {"absent", "quarantine", "scanning"}]
        BY DEF Readable
    <2>3. UNCHANGED <<ecosystem, package, writers, artifacts, objects, extras, tag>>
        BY DEF names
    <2> QED
        BY <2>1, <2>2, <2>3 DEF CoreInv, TypeOK
<1>6. Rechecking => r.entitled
    BY DEF CoreInv, RequestOK
<1>7. ASSUME NEW q \in Push PROVE RequestOK(q)' /\ OwnerOK(q)'
    <2>1. CASE q = p
        <3>1. RequestOK(p)'
            BY <1>3, <1>4, <1>6 DEF RequestOK, CoreInv, At, Steps, OneFileSteps, ManyFilesSteps
        <3>2. OwnerOK(p)'
            BY <1>2, <1>3, <1>4 DEF OwnerOK, CoreInv, AtRow
        <3> QED
            BY <2>1, <3>1, <3>2
    <2>2. CASE q # p
        <3>1. push'[q] = push[q] /\ (SingleFile => push[q].pc \notin AtRow)
            BY <1>2, <1>4, <2>2, RequestFacts DEF CoreInv, OwnerOK
        <3>2. RequestOK(q)'
            <4>1. UNCHANGED <<ecosystem, objects>> /\ RequestOK(q)
                BY DEF names, CoreInv
            <4> QED
                BY <1>3, <3>1, <4>1 DEF RequestOK, At
        <3>3. OwnerOK(q)'
            BY <1>3, <3>1 DEF OwnerOK, CoreInv, AtRow
        <3> QED
            BY <3>2, <3>3
    <2> QED
        BY <2>1, <2>2
<1>8. RowOK'
    <2>1. artifacts' = NoFiles /\ tag' = None /\ r.pc \notin Before /\ (Rechecking' => r.entitled)
        BY <1>2, <1>3, <1>6 DEF Before
    <2>2. \A f \in File : artifacts'[f] = None
        BY <2>1 DEF NoFiles
    <2> QED
        BY <1>1, <1>3, <1>4, <2>1, <2>2 DEF RowOK
<1>9. OneFileOK'
    BY <1>1, <1>2, <1>3, <1>4 DEF OneFileOK, CoreInv, Readable
<1>10. ManageOK'
    BY <1>2 DEF ManageOK, CoreInv, NoRelease, Readable
<1> QED
    BY <1>5, <1>7, <1>8, <1>9, <1>10 DEF CoreInv

\* The version is inserted, or is there already.
LEMMA InsertVersionStep ==
    ASSUME CoreInv, NEW p \in Push, InsertVersion(p)
    PROVE  CoreInv'
<1>1. push[p].pc = "version" /\ UNCHANGED <<names, artifacts, extras, tag, objects, manage, spoilt>>
    BY DEF InsertVersion, At
<1>2. SingleFile /\ release.id # p
    BY <1>1, RequestFacts DEF CoreInv, RequestOK, RowOK, Exists, Steps, ManyFilesSteps, Before
<1>3. CASE Exists
    BY <1>1, <1>2, <1>3, GotoMoves DEF InsertVersion, Steps, AtRow, Before, registry, rows
<1>4. CASE ~Exists
    <2>1. PICK r : r = [push[p] EXCEPT !.pc = "store", !.row = p]
        OBVIOUS
    <2>2. /\ push' = [push EXCEPT ![p] = r]
          /\ release' = [id |-> p, status |-> "quarantine", yanked |-> FALSE, deprecated |-> FALSE]
        BY NewRelease, <1>4, <2>1, RequestFacts DEF InsertVersion
    <2>3. r = [pc |-> "store", user |-> push[p].user, file |-> push[p].file,
               content |-> push[p].content, row |-> p, seen |-> push[p].seen,
               entitled |-> push[p].entitled]
        BY <2>1, RequestFacts DEF Request
    <2>4. r \in Request
        BY <2>3, RequestFacts DEF Request, AtRow
    <2> QED
        BY <1>1, <1>2, <1>4, <2>2, <2>3, <2>4, NewRow
<1> QED
    BY <1>3, <1>4

\* The version is inserted, or the row that won is read.
LEMMA AddVersionStep ==
    ASSUME CoreInv, NEW p \in Push, AddVersion(p, "inspect")
    PROVE  CoreInv'
<1>1. push[p].pc = "add" /\ UNCHANGED <<names, artifacts, extras, tag, objects, manage, spoilt>>
    BY DEF AddVersion, At
<1>2. ~SingleFile /\ release.id # p
    BY <1>1, RequestFacts DEF CoreInv, RequestOK, RowOK, Exists, Steps, OneFileSteps, Before
<1>3. CASE Exists
    <2>1. "reload" \in Steps /\ (Rechecking => push[p].entitled)
        BY <1>1, <1>2 DEF Steps, ManyFilesSteps, CoreInv, RequestOK
    <2> QED
        BY <1>1, <1>2, <1>3, <2>1, GotoMoves DEF AddVersion, AtRow, Before, registry, rows
<1>4. CASE ~Exists
    <2>1. PICK seen \in Release : seen = release'
        BY <1>4, NewRelease DEF AddVersion
    <2>2. PICK r : r = [push[p] EXCEPT !.pc = "inspect", !.row = p, !.seen = seen]
        OBVIOUS
    <2>3. /\ push' = [push EXCEPT ![p] = r]
          /\ release' = [id |-> p, status |-> "quarantine", yanked |-> FALSE, deprecated |-> FALSE]
        BY NewRelease, <1>4, <2>1, <2>2, RequestFacts DEF AddVersion
    <2>4. r = [pc |-> "inspect", user |-> push[p].user, file |-> push[p].file,
               content |-> push[p].content, row |-> p, seen |-> seen,
               entitled |-> push[p].entitled]
        BY <2>2, RequestFacts DEF Request
    <2>5. r \in Request
        BY <2>4, RequestFacts DEF Request, AtRow
    <2> QED
        BY <1>1, <1>2, <1>4, <2>3, <2>4, <2>5, NewRow
<1> QED
    BY <1>3, <1>4

\* A single-file version that goes has no file yet, nobody manages it, and no other
\* request is at work on it.
LEMMA DropVersionStep ==
    ASSUME CoreInv, NEW p \in Push, DropVersion(p)
    PROVE  CoreInv'
<1>1. push[p].pc = "drop" /\ Goto(p, "done") /\ UNCHANGED <<names, objects, manage, spoilt>>
    BY DEF DropVersion, At
<1>2. "done" \in Steps
    BY DEF Steps
<1>3. /\ push'[p] = [push[p] EXCEPT !.pc = "done"]
      /\ \A q \in Push : q # p => push'[q] = push[q]
      /\ DOMAIN push' = Push
      /\ SingleFile' = SingleFile /\ Rechecking' = Rechecking /\ Plain' = Plain
      /\ \A q \in Push : RequestOK(q)'
    BY <1>1, <1>2, OthersStay DEF names, AtRow
<1>4. push'[p].pc = "done" /\ push'[p].file = push[p].file
    BY <1>3, RequestFacts DEF Request
<1>5. OwnerOK(p) /\ RowOK /\ OneFileOK /\ ManageOK
    BY DEF CoreInv
<1>6. SingleFile => Stored(push[p].row) /\ artifacts = NoFiles
    BY <1>1, <1>5, RequestFacts DEF OwnerOK, Stored, Exists, AtRow
<1>7. CASE ~Stored(push[p].row)
    <2>1. ~SingleFile /\ UNCHANGED rows
        BY <1>6, <1>7 DEF DropVersion
    <2> QED
        BY <1>1, <1>2, <2>1, GotoMoves DEF AtRow, Before, registry
<1>8. CASE Stored(push[p].row)
    <2>1. release' = NoRelease /\ artifacts' = NoFiles /\ extras' = "none" /\ tag' = None
        BY <1>8 DEF DropVersion
    <2>2. ~Exists' /\ release'.status = "absent" /\ ~release'.yanked /\ ~release'.deprecated
        BY <2>1 DEF Exists, NoRelease
    <2>3. TypeOK'
        <3>1. release' \in [id : Push \cup {None}, yanked : BOOLEAN, deprecated : BOOLEAN,
                            status : Readable \cup {"absent", "quarantine", "scanning"}]
            BY <2>1 DEF NoRelease
        <3>2. artifacts' \in [File -> Content \cup {None}]
            BY <2>1 DEF NoFiles
        <3>3. extras' \in {"none", "listed", "unlisted"} /\ tag' \in Push \cup {None}
            BY <2>1
        <3> QED
            BY <1>1, <1>3, <3>1, <3>2, <3>3 DEF CoreInv, TypeOK, names
    <2>4. ASSUME NEW q \in Push PROVE OwnerOK(q)'
        <3>1. CASE q = p
            BY <1>3, <1>4, <1>5, <3>1 DEF OwnerOK, AtRow
        <3>2. CASE q # p
            <4>1. SingleFile => release.id = p
                BY <1>1, <1>5 DEF OwnerOK, AtRow
            <4>2. OwnerOK(q) /\ push'[q] = push[q]
                BY <1>3, <3>2 DEF CoreInv
            <4> QED
                BY <1>3, <3>2, <4>1, <4>2 DEF OwnerOK, AtRow
        <3> QED
            BY <3>1, <3>2
    <2>5. \A f \in File : artifacts'[f] = None
        BY <2>1 DEF NoFiles
    <2>6. RowOK'
        BY <2>1, <2>2, <2>5 DEF RowOK
    <2>7. OneFileOK'
        BY <2>2, <2>5 DEF OneFileOK, Readable, File
    <2>8. ManageOK'
        <3>1. Plain => release.status \notin Readable
            BY <1>5, <1>6 DEF OneFileOK, Plain, SingleFile, NoFiles, File
        <3>2. ASSUME NEW m \in Manager PROVE manage[m].pc = "idle"
            BY <1>5, <3>1 DEF ManageOK, Plain
        <3> QED
            BY <1>1, <1>5, <3>2 DEF ManageOK
    <2> QED
        BY <1>3, <2>3, <2>4, <2>6, <2>7, <2>8 DEF CoreInv
<1> QED
    BY <1>7, <1>8

\* INSERT INTO artifacts: a row names an object that is there, and the first one
\* stays.
LEMMA RecordStep ==
    ASSUME CoreInv, NEW p \in Push, NEW next, Record(p, next), next \in Steps,
           next \in {"publish", "describe", "apply", "finalize"}
    PROVE  CoreInv'
<1> DEFINE f == push[p].file
           c == push[p].content
<1>1. push[p].pc = "record" /\ UNCHANGED <<names, release, extras, tag, objects, manage, spoilt>>
    BY DEF Record, At
<1>2. /\ push[p].row \in Push /\ f \in File /\ c \in Content /\ c # None
      /\ Key(push[p].row, f, c) \in objects
      /\ Rechecking => push[p].entitled
    BY <1>1, RequestFacts, NativeAssumption DEF CoreInv, RequestOK, Request, At, AtRow
<1>3. OwnerOK(p) /\ RowOK /\ OneFileOK
    BY DEF CoreInv
<1>4. CASE ~Stored(push[p].row)
    <2>1. Goto(p, "done") /\ UNCHANGED <<registry, manage, spoilt>> /\ "done" \in Steps
        BY <1>1, <1>4 DEF Record, registry, rows, Steps
    <2>2. ~SingleFile
        BY <1>1, <1>3, <1>4, RequestFacts DEF OwnerOK, Stored, Exists, AtRow
    <2> QED
        BY <1>1, <2>1, <2>2, GotoMoves DEF AtRow, Before
<1>5. CASE Stored(push[p].row)
    <2>1. PICK pc \in {next, "done"} :
            /\ Goto(p, pc)
            /\ artifacts' = IF artifacts[f] = None THEN [artifacts EXCEPT ![f] = c] ELSE artifacts
            /\ pc = IF artifacts'[f] = c THEN next ELSE "done"
        BY <1>5 DEF Record
    <2>2. pc \in Steps /\ pc \in {"publish", "describe", "apply", "finalize", "done"}
        BY <2>1 DEF Steps
    <2>3. /\ push'[p] = [push[p] EXCEPT !.pc = pc]
          /\ \A q \in Push : q # p => push'[q] = push[q]
          /\ DOMAIN push' = Push
          /\ SingleFile' = SingleFile /\ Rechecking' = Rechecking /\ Plain' = Plain
          /\ \A q \in Push : RequestOK(q)'
        BY <1>1, <1>2, <2>1, <2>2, OthersStay DEF names
    <2>4. push'[p].pc = pc /\ push'[p].file = f /\ push'[p].row = push[p].row
          /\ push'[p].entitled = push[p].entitled
        BY <2>3, RequestFacts DEF Request
    <2>5. artifacts \in [File -> Content \cup {None}]
        BY DEF CoreInv, TypeOK
    <2>6. /\ artifacts' \in [File -> Content \cup {None}]
          /\ \A g \in File : artifacts[g] # None => artifacts'[g] = artifacts[g]
          /\ \A g \in File : g # f => artifacts'[g] = artifacts[g]
          /\ artifacts'[f] # None
          /\ artifacts[f] = None => artifacts'[f] = c
        BY <1>2, <2>1, <2>5
    <2>7. TypeOK'
        BY <1>1, <2>3, <2>6 DEF CoreInv, TypeOK, names
    <2>8. release.id = push[p].row
        BY <1>5 DEF Stored
    <2>9. SingleFile => f = "main" /\ release.id = p /\ pc # "done"
        <3>1. SingleFile => f = "main" /\ release.id = p /\ artifacts = NoFiles
            BY <1>1, <1>3 DEF OwnerOK, AtRow
        <3>2. SingleFile => artifacts[f] = None
            BY <1>2, <3>1 DEF NoFiles
        <3> QED
            BY <2>1, <2>6, <3>1, <3>2
    <2>10. ASSUME NEW q \in Push PROVE OwnerOK(q)'
        <3>1. CASE q = p
            <4>1. pc \notin {"store", "drop", "record"}
                BY <2>2
            <4> QED
                BY <1>1, <1>3, <2>3, <2>4, <2>6, <2>9, <3>1, <4>1 DEF OwnerOK, AtRow
        <3>2. CASE q # p
            <4>1. OwnerOK(q) /\ push'[q] = push[q]
                BY <2>3, <3>2 DEF CoreInv
            <4> QED
                BY <1>1, <2>3, <2>9, <3>2, <4>1 DEF OwnerOK, AtRow
        <3> QED
            BY <3>1, <3>2
    <2>11. RowOK'
        <3>1. ASSUME NEW g \in File, artifacts'[g] # None
              PROVE  Key(release'.id, g, artifacts'[g]) \in objects'
            <4>1. CASE artifacts[g] # None
                BY <1>1, <1>3, <2>6, <4>1 DEF RowOK
            <4>2. CASE artifacts[g] = None
                BY <1>1, <1>2, <2>6, <2>8, <3>1, <4>2
            <4> QED
                BY <4>1, <4>2
        <3>2. Exists' = Exists /\ Exists
            BY <1>1, <1>5 DEF Exists, Stored
        <3>3. release.id \in Push /\ push'[release.id].pc \notin Before
              /\ push'[release.id].entitled = push[release.id].entitled
            <4>1. CASE release.id = p
                BY <2>2, <2>4, <4>1 DEF Before
            <4>2. CASE release.id # p
                BY <1>2, <1>3, <2>3, <2>8, <3>2, <4>2 DEF RowOK
            <4> QED
                BY <4>1, <4>2
        <3> QED
            BY <1>1, <1>3, <2>3, <3>1, <3>2, <3>3 DEF RowOK
    <2>12. OneFileOK'
        <3>1. SingleFile => push'[release'.id].pc \in {"publish", "describe"}
            BY <1>1, <2>2, <2>4, <2>9 DEF Steps, OneFileSteps
        <3>2. "main" \in File /\ "extra" \in File /\ "sum" \in File
            BY DEF File
        <3> QED
            BY <1>1, <1>3, <2>3, <2>6, <2>9, <3>1, <3>2 DEF OneFileOK
    <2>13. ManageOK'
        BY <1>1 DEF ManageOK, CoreInv, names
    <2> QED
        BY <2>3, <2>7, <2>10, <2>11, <2>12, <2>13 DEF CoreInv
<1> QED
    BY <1>4, <1>5

\* What SetStatus and SetYanked make of a row by its id: the row may be anything by
\* then, but it becomes readable.
Opened(row) ==
    \/ UNCHANGED release
    \/ /\ Stored(row)
       /\ release' \in Release /\ release'.id = release.id /\ release'.status \in Readable
       /\ Plain => artifacts["main"] # None

\* The row is always of its type.
LEMMA ReleaseTyped == CoreInv => release \in Release
BY DEF CoreInv, TypeOK, Release

\* A row that is opened is one RowMoves allows.
LEMMA OpenedMoves ==
    ASSUME CoreInv, NEW row, Opened(row), tag' # None => tag' = tag
    PROVE  RowMoves
<1>1. CASE UNCHANGED release
    BY <1>1, ReleaseTyped DEF RowMoves, CoreInv, RowOK, OneFileOK
<1>2. CASE ~UNCHANGED release
    BY <1>2 DEF Opened, RowMoves, Stored, Readable
<1> QED
    BY <1>1, <1>2

\* SetStatus opens the row if the status is a readable one.
LEMMA SetStatusOpens ==
    ASSUME CoreInv, NEW row, NEW status \in Readable, SetStatus(row, status),
           Plain => artifacts["main"] # None
    PROVE  Opened(row)
<1>1. CASE Stored(row)
    <2>1. PICK r : r = release /\ r \in Release
        BY ReleaseTyped
    <2>2. PICK s : s = [r EXCEPT !.status = status]
        OBVIOUS
    <2>3. s = [id |-> r.id, status |-> status, yanked |-> r.yanked, deprecated |-> r.deprecated]
        BY <2>1, <2>2 DEF Release
    <2>4. s \in Release /\ s.id = r.id /\ s.status \in Readable
        BY <2>1, <2>3 DEF Release
    <2> QED
        BY <1>1, <2>1, <2>2, <2>4 DEF SetStatus, Opened
<1>2. CASE ~Stored(row)
    BY <1>2 DEF SetStatus, Opened
<1> QED
    BY <1>1, <1>2

\* SetYanked opens the row of a version whose file is there, or of a gem.
LEMMA SetYankedOpens ==
    ASSUME CoreInv, NEW row, NEW yanked \in BOOLEAN, SetYanked(row, yanked),
           Plain => artifacts["main"] # None
    PROVE  Opened(row)
<1>1. CASE Stored(row)
    <2>1. PICK r : r = release /\ r \in Release
        BY ReleaseTyped
    <2>2. PICK status \in Readable : status = IF yanked THEN "yanked" ELSE "published"
        BY DEF Readable
    <2>3. PICK s : s = [r EXCEPT !.yanked = yanked, !.status = status]
        OBVIOUS
    <2>4. s = [id |-> r.id, status |-> status, yanked |-> yanked, deprecated |-> r.deprecated]
        BY <2>1, <2>3 DEF Release
    <2>5. s \in Release /\ s.id = r.id /\ s.status \in Readable
        BY <2>1, <2>4 DEF Release
    <2> QED
        BY <1>1, <2>1, <2>2, <2>3, <2>5 DEF SetYanked, Opened
<1>2. CASE ~Stored(row)
    BY <1>2 DEF SetYanked, Opened
<1> QED
    BY <1>1, <1>2

\* The last step of a request, which opens the version it worked on or does nothing.
LEMMA OpenStep ==
    ASSUME CoreInv, NEW p \in Push, NEW pc \in {"tag", "done"}, Goto(p, pc), pc \in Steps,
           push[p].pc \in AtRow, Opened(push[p].row),
           SingleFile => release'.status \in Readable,
           pc = "tag" => push[p].pc = "publish",
           UNCHANGED <<names, artifacts, extras, tag, objects, manage, spoilt>>
    PROVE  CoreInv'
<1>1. push[p].pc # "idle" /\ push[p].row \in Push /\ (Rechecking => push[p].entitled \/ pc = "done")
    BY DEF CoreInv, RequestOK, AtRow
<1>2. /\ push'[p] = [push[p] EXCEPT !.pc = pc]
      /\ \A q \in Push : q # p => push'[q] = push[q]
      /\ DOMAIN push' = Push
      /\ SingleFile' = SingleFile
      /\ \A q \in Push : RequestOK(q)'
    BY <1>1, OthersStay DEF names
<1>3. push'[p].pc = pc /\ push'[p].row = push[p].row /\ push'[p].file = push[p].file
      /\ push'[p].entitled = push[p].entitled
    BY <1>2, RequestFacts DEF Request
<1>4. RowMoves
    BY OpenedMoves
<1>5. TypeOK'
    BY <1>2, <1>4 DEF CoreInv, TypeOK, names, RowMoves, Release
<1>6. OwnerOK(p)'
    BY <1>2, <1>3, <1>4 DEF OwnerOK, CoreInv, AtRow, RowMoves
<1>7. ASSUME NEW q \in Push PROVE PushMoves(q)
    <2>1. CASE q = p
        <3>1. release.id = p => (Rechecking => push[p].entitled)
            BY RequestFacts DEF CoreInv, RowOK, Exists
        <3> QED
            BY <1>2, <1>3, <1>6, <2>1, <3>1 DEF PushMoves, Before, Readable
    <2>2. CASE q # p
        BY <1>2, <2>2 DEF PushMoves
    <2> QED
        BY <2>1, <2>2
<1> QED
    BY <1>4, <1>5, <1>7, Moves DEF names, ManageMoves

\* UPDATE releases SET status = 'published', at the end of a single-file publish.
LEMMA PublishStep ==
    ASSUME CoreInv, NEW p \in Push, NEW next \in {"tag", "done"}, Publish(p, next)
    PROVE  CoreInv'
<1>1. /\ push[p].pc = "publish" /\ Goto(p, next) /\ SetStatus(push[p].row, "published")
      /\ UNCHANGED <<names, artifacts, extras, tag, objects, manage, spoilt>>
    BY DEF Publish, At
<1>2. SingleFile
    BY <1>1 DEF CoreInv, RequestOK, Steps, ManyFilesSteps
<1>3. artifacts["main"] # None /\ Stored(push[p].row)
    BY <1>1, <1>2, RequestFacts DEF CoreInv, OwnerOK, AtRow, Stored, Exists
<1>4. next \in Steps /\ "published" \in Readable
    BY <1>2 DEF Steps, OneFileSteps, Readable
<1>5. Opened(push[p].row)
    BY <1>1, <1>3, <1>4, SetStatusOpens
<1>6. release'.status \in Readable
    BY <1>1, <1>3, <1>4, ReleaseTyped DEF SetStatus, Release
<1> QED
    BY <1>1, <1>4, <1>5, <1>6, OpenStep DEF AtRow

\* The last step of a deployment and of an upload opens a version that was not open
\* when the request read it.
LEMMA FinalizeStep ==
    ASSUME CoreInv, NEW p \in Push, NEW status \in Readable, Goto(p, "done"),
           push[p].pc \in {"apply", "finalize"},
           SetStatus(push[p].row, status) \/ UNCHANGED release,
           UNCHANGED <<names, artifacts, extras, tag, objects, manage, spoilt>>
    PROVE  CoreInv'
<1>1. ~SingleFile /\ ~Plain
    BY DEF CoreInv, RequestOK, Steps, OneFileSteps, SingleFile, Plain
<1>2. Opened(push[p].row)
    BY <1>1, SetStatusOpens DEF Opened
<1>3. "done" \in Steps
    BY DEF Steps
<1> QED
    BY <1>1, <1>2, <1>3, OpenStep DEF AtRow

\* A tag is pointed to a version that is readable, or nowhere.
LEMMA PointTagMoves ==
    ASSUME CoreInv, UNCHANGED release, NpmPointTag \/ tag' = None \/ UNCHANGED tag
    PROVE  RowMoves
BY ReleaseTyped DEF NpmPointTag, RowMoves, CoreInv, RowOK, OneFileOK

\* The tags of npm publish.
LEMMA NpmTagStep ==
    ASSUME CoreInv, NEW p \in Push, NpmTag(p)
    PROVE  CoreInv'
<1>1. /\ push[p].pc = "tag" /\ Goto(p, "done") /\ "done" \in Steps
      /\ NpmPointTag \/ UNCHANGED tag
      /\ UNCHANGED <<names, release, artifacts, extras, objects, manage, spoilt>>
    BY DEF NpmTag, At, Steps
<1>2. /\ push'[p] = [push[p] EXCEPT !.pc = "done"]
      /\ \A q \in Push : q # p => push'[q] = push[q]
      /\ DOMAIN push' = Push
      /\ SingleFile' = SingleFile
      /\ \A q \in Push : RequestOK(q)'
    BY <1>1, OthersStay DEF names, AtRow
<1>3. push'[p].pc = "done" /\ push'[p].file = push[p].file /\ push'[p].entitled = push[p].entitled
    BY <1>2, RequestFacts DEF Request
<1>4. RowMoves
    BY <1>1, PointTagMoves
<1>5. TypeOK'
    BY <1>1, <1>2, ReleaseTyped DEF CoreInv, TypeOK, names, NpmPointTag, Release
<1>6. OwnerOK(p)'
    BY <1>2, <1>3 DEF OwnerOK, CoreInv, AtRow
<1>7. SingleFile /\ release.id = p /\ (Rechecking => push[p].entitled)
    <2>1. SingleFile
        BY <1>1 DEF CoreInv, RequestOK, Steps, ManyFilesSteps
    <2>2. release.id = p
        BY <1>1, <2>1 DEF CoreInv, OwnerOK, AtRow
    <2> QED
        BY <1>1, <2>1, <2>2 DEF CoreInv, RequestOK
<1>8. ASSUME NEW q \in Push PROVE PushMoves(q)
    <2>1. CASE q = p
        <3>1. ~spoilt => release.status \notin {"quarantine", "scanning"}
            BY <1>1, <1>7 DEF CoreInv, OneFileOK
        <3> QED
            BY <1>1, <1>2, <1>3, <1>6, <1>7, <2>1, <3>1 DEF PushMoves, Before
    <2>2. CASE q # p
        BY <1>2, <2>2 DEF PushMoves
    <2> QED
        BY <2>1, <2>2
<1> QED
    BY <1>1, <1>4, <1>5, <1>8, Moves DEF names, ManageMoves

-----------------------------------------------------------------------------
(* The other requests and the control plane.                               *)

\* A step of no publish request preserves the invariant if RowMoves and ManageMoves
\* allow it.
LEMMA ManagedMoves ==
    ASSUME CoreInv, RowMoves, UNCHANGED <<names, artifacts, objects, push, spoilt>>,
           extras' \in {"none", "listed", "unlisted"},
           tag' \in Push \cup {None}, DOMAIN manage' = Manager,
           \A m \in Manager : ManageMoves(m)
    PROVE  CoreInv'
<1>1. TypeOK'
    BY DEF CoreInv, TypeOK, RowMoves, Release, names
<1>2. \A q \in Push : PushMoves(q)
    BY DEF PushMoves
<1> QED
    BY <1>1, <1>2, Moves DEF names

\* The part of the type that a manager leaves alone.
LEMMA ManagedTypes ==
    ASSUME CoreInv
    PROVE  extras \in {"none", "listed", "unlisted"} /\ tag \in Push \cup {None} /\ DOMAIN manage = Manager
BY DEF CoreInv, TypeOK

\* npm dist-tag add and rm.
LEMMA DistTagStep ==
    ASSUME CoreInv, NpmManage
    PROVE  CoreInv'
<1>1. /\ UNCHANGED <<names, release, artifacts, extras, objects, push, manage, spoilt>>
      /\ NpmPointTag \/ tag' = None
    BY DEF NpmManage, NpmSetDistTag, NpmDeleteDistTag
<1>2. tag' \in Push \cup {None}
    BY <1>1, ManagedTypes, ReleaseTyped DEF NpmPointTag, Release
<1>3. RowMoves
    BY <1>1, PointTagMoves
<1> QED
    BY <1>1, <1>2, <1>3, ManagedTypes, ManagedMoves DEF ManageMoves

\* A manager takes up a version that is readable.
LEMMA SelectStep ==
    ASSUME CoreInv, NEW m \in Manager, NEW op \in {"yank", "unyank", "unlist", "relist"},
           NEW statuses \in SUBSET Readable, Select(m, op, statuses), ecosystem \in {"cargo", "nuget"}
    PROVE  CoreInv'
<1>1. /\ manage' = [manage EXCEPT ![m] = [pc |-> op, row |-> release.id]]
      /\ release.status \in Readable /\ UNCHANGED <<registry, push, spoilt>>
    BY DEF Select
<1>2. \A n \in Manager : ManageMoves(n)
    BY <1>1, ManagedTypes, ReleaseTyped DEF ManageMoves, Management, Release, registry, rows
<1>3. DOMAIN manage' = Manager
    BY <1>1, ManagedTypes
<1> QED
    BY <1>1, <1>2, <1>3, RowStays, ManagedTypes, ManagedMoves DEF registry, rows

\* It yanks or restores the row it has found, which is still there and readable.
LEMMA YankStep ==
    ASSUME CoreInv, NEW m \in Manager, NEW op, NEW yanked \in BOOLEAN, NEW next \in {"idle", "hide", "show"},
           Yank(m, op, yanked, next), op # "idle"
    PROVE  CoreInv'
<1>1. PICK r : r = IF next = "idle" THEN NoManage ELSE [pc |-> next, row |-> manage[m].row]
    OBVIOUS
<1>2. /\ manage[m].pc # "idle" /\ SetYanked(manage[m].row, yanked)
      /\ manage' = [manage EXCEPT ![m] = r]
      /\ UNCHANGED <<names, artifacts, extras, tag, objects, push, spoilt>>
    BY <1>1 DEF Yank
<1>3. /\ ecosystem \in {"cargo", "nuget"} /\ manage[m].row = release.id /\ release.status \in Readable
      /\ manage[m] \in Management
    BY <1>2 DEF CoreInv, ManageOK
<1>4. Opened(manage[m].row)
    BY <1>2, <1>3, SetYankedOpens DEF CoreInv, OneFileOK, Plain
<1>5. RowMoves
    BY <1>2, <1>4, OpenedMoves
<1>6. r \in Management /\ (r.pc # "idle" => r.row = release.id)
    BY <1>1, <1>3 DEF Management, NoManage
<1>7. \A n \in Manager : ManageMoves(n)
    BY <1>2, <1>3, <1>5, <1>6, ManagedTypes DEF ManageMoves, RowMoves
<1>8. DOMAIN manage' = Manager
    BY <1>2, ManagedTypes
<1> QED
    BY <1>2, <1>5, <1>7, <1>8, ManagedTypes, ManagedMoves

\* It writes is_listed, or passes over a failure.
LEMMA ListingStep ==
    ASSUME CoreInv, NEW m \in Manager, NugetSetListed(m) \/ NugetSkip(m)
    PROVE  CoreInv'
<1>1. PICK r \in {NoManage, [pc |-> "hide", row |-> manage[m].row], [pc |-> "show", row |-> manage[m].row]} :
        manage' = [manage EXCEPT ![m] = r]
    <2>1. CASE NugetSetListed(m)
        BY <2>1 DEF NugetSetListed
    <2>2. CASE NugetSkip(m)
        <3>1. manage[m] \in Management
            BY DEF CoreInv, ManageOK
        <3>2. /\ [manage[m] EXCEPT !.pc = "hide"] = [pc |-> "hide", row |-> manage[m].row]
              /\ [manage[m] EXCEPT !.pc = "show"] = [pc |-> "show", row |-> manage[m].row]
            BY <3>1 DEF Management
        <3> QED
            BY <2>2, <3>1, <3>2 DEF NugetSkip
    <2> QED
        BY <2>1, <2>2
<1>2. /\ manage[m].pc # "idle"
      /\ UNCHANGED <<names, release, artifacts, tag, objects, push, spoilt>>
      /\ extras' \in {"none", "listed", "unlisted"}
    BY ManagedTypes DEF NugetSetListed, NugetSkip, registry, rows
<1>3. /\ ecosystem \in {"cargo", "nuget"} /\ manage[m].row = release.id /\ release.status \in Readable
      /\ manage[m] \in Management
    BY <1>2 DEF CoreInv, ManageOK
<1>4. r \in Management /\ (r.pc # "idle" => r.row = release.id)
    BY <1>1, <1>3 DEF Management, NoManage
<1>5. \A n \in Manager : ManageMoves(n)
    BY <1>1, <1>2, <1>3, <1>4, ManagedTypes DEF ManageMoves
<1>6. RowMoves
    BY <1>2, ReleaseTyped DEF RowMoves, CoreInv, RowOK, OneFileOK
<1>7. DOMAIN manage' = Manager
    BY <1>1, ManagedTypes
<1> QED
    BY <1>2, <1>5, <1>6, <1>7, ManagedTypes, ManagedMoves

\* Composer yanks a version that is readable, RubyGems any.
LEMMA YankPackageStep ==
    ASSUME CoreInv,
           \/ ComposerYank /\ ecosystem = "composer"
           \/ RubygemsYank /\ ecosystem = "rubygems"
    PROVE  CoreInv'
<1>1. /\ SetYanked(release.id, TRUE)
      /\ UNCHANGED <<names, artifacts, extras, tag, objects, push, manage, spoilt>>
    BY DEF ComposerYank, RubygemsYank
<1>2. Plain => artifacts["main"] # None
    BY DEF CoreInv, OneFileOK, ComposerYank, Plain
<1>3. RowMoves
    BY <1>1, <1>2, SetYankedOpens, OpenedMoves
<1> QED
    BY <1>1, <1>3, ManagedTypes, ManagedMoves DEF ManageMoves

\* Grants and roles say who may write from now on.
LEMMA RegrantStep ==
    ASSUME CoreInv, Regrant
    PROVE  CoreInv'
<1>1. writers' \subseteq User /\ UNCHANGED <<ecosystem, package, rows, objects, push, manage, spoilt>>
    BY DEF Regrant
<1>2. TypeOK'
    BY <1>1 DEF CoreInv, TypeOK, rows
<1> QED
    BY <1>1, <1>2, RowStays, Moves DEF rows, PushMoves, ManageMoves

\* The control plane scans a version that has a file, and moderates one that is
\* readable.
LEMMA ControlPlaneStep ==
    ASSUME CoreInv, Submit \/ Conclude \/ Moderate
    PROVE  CoreInv'
<1>1. UNCHANGED <<names, artifacts, extras, tag, objects, push, manage, spoilt>>
    BY DEF Submit, Conclude, Moderate
<1>2. PICK r : r = release /\ r \in Release
    BY ReleaseTyped
<1>3. /\ r.status = "absent" <=> ~Exists
      /\ r.yanked \/ r.deprecated => r.status \in Readable
      /\ Plain /\ r.status \in Readable \cup {"scanning"} => artifacts["main"] # None
      /\ ~Exists => r.id = None
    BY <1>2 DEF CoreInv, RowOK, OneFileOK, NoRelease, Exists
<1>4. PICK s \in Release :
        /\ release' = s /\ s.id = r.id /\ s.status # "absent" /\ r.status # "absent"
        /\ s.yanked \/ s.deprecated => s.status \in Readable
        /\ r.status \in Readable => s.status \in Readable
        /\ s.status \in {"quarantine", "scanning"} => r.status \in {"quarantine", "scanning"}
        /\ Plain /\ s.status \in Readable \cup {"scanning"} => artifacts["main"] # None
    <2>1. CASE Submit
        <3>1. PICK s : s = [r EXCEPT !.status = "scanning"]
            OBVIOUS
        <3>2. s = [id |-> r.id, status |-> "scanning", yanked |-> r.yanked, deprecated |-> r.deprecated]
            BY <1>2, <3>1 DEF Release
        <3>3. Plain => artifacts["main"] # None
            <4>1. artifacts # NoFiles /\ artifacts \in [File -> Content \cup {None}]
                BY <2>1 DEF Submit, CoreInv, TypeOK
            <4>2. PICK f \in File : artifacts[f] # None
                BY <4>1 DEF NoFiles
            <4> QED
                BY <4>2 DEF CoreInv, OneFileOK, Plain, SingleFile, File
        <3>4. s \in Release
            BY <1>2, <3>2 DEF Release
        <3>5. release' = s /\ r.status = "quarantine"
            BY <1>2, <2>1, <3>1 DEF Submit
        <3> QED
            BY <1>3, <3>2, <3>3, <3>4, <3>5 DEF Readable
    <2>2. CASE Conclude
        <3>1. PICK status \in {"quarantine"} \cup Readable : release' = [r EXCEPT !.status = status]
            BY <1>2, <2>2 DEF Conclude, Readable
        <3>2. PICK s : s = [r EXCEPT !.status = status]
            OBVIOUS
        <3>3. s = [id |-> r.id, status |-> status, yanked |-> r.yanked, deprecated |-> r.deprecated]
            BY <1>2, <3>2 DEF Release
        <3>4. s \in Release /\ release' = s
            BY <1>2, <3>1, <3>2, <3>3 DEF Release
        <3>5. r.status = "scanning"
            BY <1>2, <2>2 DEF Conclude
        <3> QED
            BY <1>3, <3>3, <3>4, <3>5 DEF Readable
    <2>3. CASE Moderate
        <3>1. PICK status \in Readable, yanked \in BOOLEAN, deprecated \in BOOLEAN :
                release' = [id |-> r.id, status |-> status, yanked |-> yanked, deprecated |-> deprecated]
            <4>1. PICK status \in Readable, yanked \in BOOLEAN, deprecated \in BOOLEAN :
                    \/ release' = [r EXCEPT !.yanked = yanked, !.status = status]
                    \/ release' = [r EXCEPT !.deprecated = deprecated, !.status = status]
                BY <1>2, <2>3 DEF Moderate, Readable
            <4>2. PICK s : s = [r EXCEPT !.yanked = yanked, !.status = status]
                OBVIOUS
            <4>3. PICK t : t = [r EXCEPT !.deprecated = deprecated, !.status = status]
                OBVIOUS
            <4>4. s = [id |-> r.id, status |-> status, yanked |-> yanked, deprecated |-> r.deprecated]
                BY <1>2, <4>2 DEF Release
            <4>5. t = [id |-> r.id, status |-> status, yanked |-> r.yanked, deprecated |-> deprecated]
                BY <1>2, <4>3 DEF Release
            <4>6. r.yanked \in BOOLEAN /\ r.deprecated \in BOOLEAN
                BY <1>2 DEF Release
            <4> QED
                BY <4>1, <4>2, <4>3, <4>4, <4>5, <4>6
        <3>2. r.status \in Readable
            BY <1>2, <1>3, <2>3 DEF Moderate
        <3>3. [id |-> r.id, status |-> status, yanked |-> yanked, deprecated |-> deprecated] \in Release
            BY <1>2, <3>1 DEF Release
        <3> QED
            BY <1>3, <3>1, <3>2, <3>3 DEF Readable
    <2> QED
        BY <2>1, <2>2, <2>3
<1>5. RowMoves
    BY <1>1, <1>2, <1>3, <1>4 DEF RowMoves
<1> QED
    BY <1>1, <1>5, ManagedTypes, ManagedMoves DEF ManageMoves

-----------------------------------------------------------------------------
(* The adapters.                                                           *)

\* Every statement of a single-file publish preserves the invariant.
LEMMA OneFilePublish ==
    ASSUME CoreInv, SingleFile, NEW p \in Push,
           \/ Resolve(p, "main", "version")
           \/ InsertVersion(p) \/ Store(p, "record") \/ StoreFails(p, "drop") \/ DropVersion(p)
           \/ Record(p, "publish") \/ Record(p, "describe") \/ Describe(p, "publish")
           \/ Publish(p, "tag") \/ Publish(p, "done")
    PROVE  CoreInv'
<1>1. First = "version" /\ "main" \in File /\ {"publish", "describe"} \subseteq Steps
    BY DEF First, File, Steps, OneFileSteps
<1>2. CASE Resolve(p, "main", "version")
    BY <1>1, <1>2, ResolveStep
<1>3. CASE InsertVersion(p) \/ Store(p, "record") \/ DropVersion(p) \/ Describe(p, "publish")
    BY <1>3, InsertVersionStep, StoreStep, DropVersionStep, DescribeStep
<1>4. CASE StoreFails(p, "drop")
    BY <1>4, StoreFailsStep DEF SingleFile
<1>5. CASE Record(p, "publish") \/ Record(p, "describe")
    BY <1>1, <1>5, RecordStep
<1>6. CASE Publish(p, "tag") \/ Publish(p, "done")
    BY <1>6, PublishStep
<1> QED
    BY <1>2, <1>3, <1>4, <1>5, <1>6

\* npm, Cargo, NuGet, Composer and RubyGems, with what they have of their own.
LEMMA OneFileStep ==
    ASSUME CoreInv, Npm \/ Cargo \/ Nuget \/ Composer \/ Rubygems
    PROVE  CoreInv'
<1>1. SingleFile /\ First = "version"
    BY DEF Npm, Cargo, Nuget, Composer, Rubygems, SingleFile, First
<1>2. CASE Npm
    <2>1. ~Rechecking
        BY <1>2 DEF Npm, Rechecking
    <2>2. ASSUME NEW p \in Push, NpmCreate(p) PROVE CoreInv'
        BY <1>1, <2>1, <2>2, CreatePackageStep DEF NpmCreate
    <2>3. ASSUME NEW p \in Push, NpmPublish(p) PROVE CoreInv'
        BY <1>1, <2>2, <2>3, OneFilePublish, NpmTagStep DEF NpmPublish, NpmResolve, NpmInsert,
            NpmStore, NpmDrop, NpmRecord, NpmSetPublished
    <2> QED
        BY <1>2, <2>3, DistTagStep DEF Npm
<1>3. CASE Cargo
    <2>1. ~Rechecking /\ ecosystem = "cargo"
        BY <1>3 DEF Cargo, Rechecking
    <2>2. ASSUME NEW p \in Push, CargoCreate(p) PROVE CoreInv'
        BY <1>1, <2>1, <2>2, CreatePackageStep DEF CargoCreate
    <2>3. ASSUME NEW p \in Push, CargoPublish(p) PROVE CoreInv'
        BY <1>1, <2>2, <2>3, OneFilePublish DEF CargoPublish, CargoResolve, CargoInsert, CargoStore,
            CargoDrop, CargoRecord, CargoDescribe, CargoSetPublished
    <2>4. ASSUME NEW m \in Manager, CargoManage(m) PROVE CoreInv'
        BY <2>1, <2>4, SelectStep, YankStep DEF CargoManage, CargoSelect, CargoYank, CargoUnyank
    <2> QED
        BY <1>3, <2>3, <2>4 DEF Cargo
<1>4. CASE Nuget
    <2>1. ~Rechecking /\ ecosystem = "nuget"
        BY <1>4 DEF Nuget, Rechecking
    <2>2. ASSUME NEW p \in Push, NugetCreate(p) PROVE CoreInv'
        BY <1>1, <2>1, <2>2, CreatePackageStep DEF NugetCreate
    <2>3. ASSUME NEW p \in Push, NugetPush(p) PROVE CoreInv'
        BY <1>1, <2>2, <2>3, OneFilePublish DEF NugetPush, NugetResolve, NugetInsert, NugetStore,
            NugetDrop, NugetRecord, NugetDescribe, NugetSetPublished
    <2>4. ASSUME NEW m \in Manager, NugetSelect(m) PROVE CoreInv'
        <3>1. {"published", "deprecated"} \in SUBSET Readable /\ Readable \in SUBSET Readable
            BY DEF Readable
        <3> QED
            BY <2>1, <2>4, <3>1, SelectStep DEF NugetSelect
    <2>5. ASSUME NEW m \in Manager, NugetYank(m) PROVE CoreInv'
        BY <2>5, YankStep DEF NugetYank
    <2> QED
        BY <1>4, <2>3, <2>4, <2>5, ListingStep DEF Nuget, NugetManage
<1>5. CASE Composer
    <2>1. ecosystem = "composer"
        BY <1>5 DEF Composer
    <2>2. ASSUME NEW p \in Push, ComposerCreate(p) PROVE CoreInv'
        BY <1>1, <2>2, CreatePackageStep DEF ComposerCreate
    <2>3. ASSUME NEW p \in Push, ComposerRecheck(p) PROVE CoreInv'
        BY <1>1, <2>3, RecheckStep DEF ComposerRecheck
    <2>4. ASSUME NEW p \in Push, ComposerPublish(p) PROVE CoreInv'
        BY <1>1, <2>2, <2>3, <2>4, OneFilePublish DEF ComposerPublish, ComposerResolve, ComposerInsert,
            ComposerStore, ComposerDrop, ComposerRecord, ComposerSetPublished
    <2>5. ASSUME ComposerYank PROVE CoreInv'
        BY <2>1, <2>5, YankPackageStep
    <2> QED
        BY <1>5, <2>4, <2>5 DEF Composer
<1>6. CASE Rubygems
    <2>1. ~Rechecking /\ ecosystem = "rubygems"
        BY <1>6 DEF Rubygems, Rechecking
    <2>2. ASSUME NEW p \in Push, RubygemsCreate(p) PROVE CoreInv'
        BY <1>1, <2>1, <2>2, CreatePackageStep DEF RubygemsCreate
    <2>3. ASSUME NEW p \in Push, RubygemsPush(p) PROVE CoreInv'
        BY <1>1, <2>2, <2>3, OneFilePublish DEF RubygemsPush, RubygemsResolve, RubygemsInsert,
            RubygemsStore, RubygemsDrop, RubygemsRecord, RubygemsDescribe, RubygemsSetPublished
    <2> QED
        BY <1>6, <2>1, <2>3, YankPackageStep DEF Rubygems
<1> QED
    BY <1>2, <1>3, <1>4, <1>5, <1>6

\* Maven: one request for each file of a version.
LEMMA MavenStep ==
    ASSUME CoreInv, Maven
    PROVE  CoreInv'
<1>1. ~SingleFile /\ First = "find"
    BY DEF Maven, SingleFile, First
<1>2. PICK p \in Push : MavenDeploy(p)
    BY DEF Maven
<1>3. CASE MavenResolve(p)
    BY <1>1, <1>3, ResolveStep DEF MavenResolve
<1>4. CASE MavenCreate(p) \/ MavenRecheck(p)
    BY <1>1, <1>4, CreatePackageStep, RecheckStep DEF MavenCreate, MavenRecheck
<1>5. CASE MavenFind(p) \/ MavenAdd(p)
    BY <1>5, FindVersionStep, AddVersionStep DEF MavenFind, MavenAdd
<1>6. CASE MavenInspect(p)
    <2>1. PICK pc \in {"store", "apply", "done"} : Goto(p, pc) /\ At(p, "inspect") /\ OnlyPush
        BY <1>6, Zenon DEF MavenInspect
    <2>2. pc \in Steps
        BY <1>1, <2>1 DEF Steps, ManyFilesSteps
    <2> QED
        BY <2>1, <2>2, InspectStep
<1>7. CASE MavenStore(p)
    BY <1>1, <1>7, StoreStep, StoreFailsStep DEF MavenStore, Maven
<1>8. CASE MavenDrop(p)
    BY <1>8, DropVersionStep DEF MavenDrop
<1>9. CASE MavenRecord(p)
    BY <1>1, <1>9, RecordStep DEF MavenRecord, Steps, ManyFilesSteps
<1>10. CASE MavenApply(p)
    BY <1>10, FinalizeStep DEF MavenApply, Readable, At
<1> QED
    BY <1>2, <1>3, <1>4, <1>5, <1>6, <1>7, <1>8, <1>9, <1>10 DEF MavenDeploy

\* PyPI: one request for each distribution file.
LEMMA PypiStep ==
    ASSUME CoreInv, Pypi
    PROVE  CoreInv'
<1>1. ~SingleFile /\ First = "find"
    BY DEF Pypi, SingleFile, First
<1>2. PICK p \in Push : PypiUpload(p)
    BY DEF Pypi
<1>3. CASE PypiResolve(p)
    BY <1>1, <1>3, ResolveStep DEF PypiResolve, File
<1>4. CASE PypiCreate(p) \/ PypiRecheck(p)
    BY <1>1, <1>4, CreatePackageStep, RecheckStep DEF PypiCreate, PypiRecheck
<1>5. CASE PypiFind(p)
    <2>1. CASE FindVersion(p, "add", "inspect")
        BY <2>1, FindVersionStep
    <2>2. CASE ~FindVersion(p, "add", "inspect")
        <3>1. PICK seen \in Release : seen = [release EXCEPT !.status = "absent"]
            BY ReleaseTyped DEF Release
        <3> QED
            BY <1>5, <2>2, <3>1, FindStep DEF PypiFind
    <2> QED
        BY <2>1, <2>2
<1>6. CASE PypiAdd(p)
    BY <1>6, AddVersionStep DEF PypiAdd
<1>7. CASE PypiInspect(p)
    <2>1. PICK pc \in {"store", "finalize", "done"} : Goto(p, pc) /\ At(p, "inspect") /\ OnlyPush
        BY <1>7, Zenon DEF PypiInspect
    <2>2. pc \in Steps
        BY <1>1, <2>1 DEF Steps, ManyFilesSteps
    <2> QED
        BY <2>1, <2>2, InspectStep
<1>8. CASE PypiStore(p)
    BY <1>1, <1>8, StoreStep, StoreFailsStep DEF PypiStore
<1>9. CASE PypiRecord(p)
    BY <1>1, <1>9, RecordStep DEF PypiRecord, Steps, ManyFilesSteps
<1>10. CASE PypiFinalize(p)
    <2>1. PICK status \in Readable : status = DesiredStatus(push[p].seen)
        BY DEF DesiredStatus, Readable
    <2> QED
        BY <1>10, <2>1, FinalizeStep DEF PypiFinalize, At
<1> QED
    BY <1>2, <1>3, <1>4, <1>5, <1>6, <1>7, <1>8, <1>9, <1>10 DEF PypiUpload

\* Every step preserves what the rows and the requests are like.
LEMMA CoreStep == CoreInv /\ Next => CoreInv'
<1> SUFFICES ASSUME CoreInv, Next PROVE CoreInv'
    OBVIOUS
<1>1. CASE Npm \/ Cargo \/ Nuget \/ Composer \/ Rubygems
    BY <1>1, OneFileStep
<1>2. CASE Maven \/ Pypi
    BY <1>2, MavenStep, PypiStep
<1>3. CASE Moderated
    BY <1>3, RegrantStep, ControlPlaneStep DEF Moderated, ControlPlane
<1>4. CASE Interrupted
    BY <1>4, CutShortStep DEF Interrupted
<1> QED
    BY <1>1, <1>2, <1>3, <1>4 DEF Next

-----------------------------------------------------------------------------
(* The files.                                                              *)

\* A file that is recorded stays, except in a Maven version whose first file was
\* refused.
LEMMA FilesStay ==
    ASSUME CoreInv, "maven" \notin Refusing, Next, NEW f \in File, artifacts[f] # None
    PROVE  artifacts'[f] = artifacts[f]
<1>1. ASSUME NEW p \in Push, DropVersion(p) PROVE artifacts' = artifacts
    <2>1. push[p].pc = "drop" /\ ecosystem \in Refusing \ {"pypi"}
        BY <1>1 DEF DropVersion, At, CoreInv, RequestOK
    <2>2. SingleFile => artifacts = NoFiles
        BY <2>1 DEF CoreInv, OwnerOK
    <2> QED
        BY <1>1, <2>1, <2>2 DEF DropVersion, rows, SingleFile
<1>2. ASSUME NEW p \in Push, NEW next, Record(p, next) PROVE artifacts'[f] = artifacts[f]
    BY <1>2 DEF Record, CoreInv, TypeOK
<1>3. CASE Npm
    BY <1>1, <1>2, <1>3 DEF Npm, NpmPublish, NpmManage, NpmResolve, NpmCreate, NpmInsert, NpmStore,
        NpmDrop, NpmRecord, NpmSetPublished, NpmTag, NpmSetDistTag, NpmDeleteDistTag,
        Resolve, CreatePackage, InsertVersion, Store, StoreFails, Publish, OnlyPush, registry, rows
<1>4. CASE Cargo
    BY <1>1, <1>2, <1>4 DEF Cargo, CargoPublish, CargoManage, CargoResolve, CargoCreate, CargoInsert,
        CargoStore, CargoDrop, CargoRecord, CargoDescribe, CargoSetPublished, CargoSelect, CargoYank,
        CargoUnyank, Resolve, CreatePackage, InsertVersion, Store, StoreFails, Describe, Publish,
        Select, Yank, OnlyPush, registry, rows
<1>5. CASE Nuget
    BY <1>1, <1>2, <1>5 DEF Nuget, NugetPush, NugetManage, NugetResolve, NugetCreate, NugetInsert,
        NugetStore, NugetDrop, NugetRecord, NugetDescribe, NugetSetPublished, NugetSelect, NugetYank,
        NugetSetListed, NugetSkip, Resolve, CreatePackage, InsertVersion, Store, StoreFails, Describe,
        Publish, Select, Yank, OnlyPush, registry, rows
<1>6. CASE Composer
    BY <1>1, <1>2, <1>6 DEF Composer, ComposerPublish, ComposerYank, ComposerResolve, ComposerCreate,
        ComposerRecheck, ComposerInsert, ComposerStore, ComposerDrop, ComposerRecord,
        ComposerSetPublished, Resolve, CreatePackage, Recheck, InsertVersion, Store, StoreFails,
        Publish, OnlyPush, registry, rows
<1>7. CASE Rubygems
    BY <1>1, <1>2, <1>7 DEF Rubygems, RubygemsPush, RubygemsYank, RubygemsResolve, RubygemsCreate,
        RubygemsInsert, RubygemsStore, RubygemsDrop, RubygemsRecord, RubygemsDescribe,
        RubygemsSetPublished, Resolve, CreatePackage, InsertVersion, Store, StoreFails, Describe,
        Publish, OnlyPush, registry, rows
<1>8. CASE Maven
    BY <1>1, <1>2, <1>8 DEF Maven, MavenDeploy, MavenResolve, MavenCreate, MavenRecheck, MavenFind,
        MavenAdd, MavenInspect, MavenStore, MavenDrop, MavenRecord, MavenApply, Resolve, CreatePackage,
        Recheck, FindVersion, AddVersion, Store, StoreFails, OnlyPush, registry, rows
<1>9. CASE Pypi
    BY <1>1, <1>2, <1>9 DEF Pypi, PypiUpload, PypiResolve, PypiCreate, PypiRecheck, PypiFind,
        PypiAdd, PypiInspect, PypiStore, PypiRecord, PypiFinalize, Resolve, CreatePackage,
        Recheck, FindVersion, AddVersion, Store, StoreFails, OnlyPush, registry, rows
<1>10. CASE Moderated \/ Interrupted
    BY <1>10 DEF Moderated, Interrupted, ControlPlane, Regrant, Submit, Conclude, Moderate, CutShort,
        registry, rows
<1> QED
    BY <1>3, <1>4, <1>5, <1>6, <1>7, <1>8, <1>9, <1>10 DEF Next

\* A download gives the recorded file or none.
LEMMA ServesRecorded ==
    ASSUME CoreInv, NEW f \in File
    PROVE  /\ Serve(f) \in {None, artifacts[f]}
           /\ release.status \in Readable => Serve(f) = artifacts[f]
<1>1. Serve(f) = Download(f)
    BY NativeAssumption DEF Serve, NpmDownload, CargoDownload, NugetDownload, ComposerDownload, RubygemsDownload,
        MavenDownload, PypiDownload, CoreInv, TypeOK
<1>2. artifacts[f] # None => Key(release.id, f, artifacts[f]) \in objects
    BY DEF CoreInv, RowOK
<1> QED
    BY <1>1, <1>2 DEF Download

\* The same after a step.
LEMMA ServesRecordedNext ==
    ASSUME CoreInv', NEW f \in File
    PROVE  Serve(f)' \in {None, artifacts'[f]}
<1>1. Serve(f)' = Download(f)'
    BY NativeAssumption DEF Serve, NpmDownload, CargoDownload, NugetDownload, ComposerDownload, RubygemsDownload,
        MavenDownload, PypiDownload, CoreInv, TypeOK
<1> QED
    BY <1>1 DEF Download

\* What was served first is what is recorded.
LEMMA FirstStep ==
    ASSUME CoreInv, CoreInv', FirstOK, Next
    PROVE  FirstOK' /\ Remember
<1>1. Remember
    BY DEF Next, Npm, Cargo, Nuget, Composer, Rubygems, Maven, Pypi, Moderated, Interrupted
<1>2. ASSUME "maven" \notin Refusing, NEW f \in File PROVE first'[f] \in {None, artifacts'[f]}
    <2>1. first'[f] = IF first[f] = None THEN Serve(f)' ELSE first[f]
        BY <1>1 DEF Remember, Served
    <2>2. CASE first[f] = None
        BY <2>1, <2>2, ServesRecordedNext
    <2>3. CASE first[f] # None
        BY <1>2, <2>1, <2>3, FilesStay DEF FirstOK
    <2> QED
        BY <2>2, <2>3
<1> QED
    BY <1>1, <1>2 DEF FirstOK

\* Every step preserves the invariant.
LEMMA StepPreserves == IInv /\ [Next]_vars => IInv'
<1> SUFFICES ASSUME IInv, [Next]_vars PROVE IInv'
    OBVIOUS
<1>1. CASE Next
    BY <1>1, CoreStep, FirstStep DEF IInv
<1>2. CASE UNCHANGED vars
    <2>1. UNCHANGED <<ecosystem, package, writers, release, artifacts, extras, tag, objects, push,
                      manage, spoilt, first>>
        BY <1>2 DEF vars, nativeVars, registry, names, rows
    <2>2. RowMoves
        BY <2>1, RowStays DEF IInv, rows
    <2>3. TypeOK'
        BY <2>1 DEF IInv, CoreInv, TypeOK
    <2>4. CoreInv'
        BY <2>1, <2>2, <2>3, Moves DEF IInv, PushMoves, ManageMoves
    <2>5. FirstOK'
        BY <2>1 DEF IInv, FirstOK
    <2> QED
        BY <2>4, <2>5 DEF IInv
<1> QED
    BY <1>1, <1>2

\* Requests, rows and objects keep the shape the handlers give them.
THEOREM TypeCorrect == Spec => []TypeOK
<1>1. IInv => TypeOK
    BY DEF IInv, CoreInv
<1> QED
    BY <1>1, InitEstablishes, StepPreserves, PTL DEF Spec

\* Whatever an index of one of the seven adapters lists, its download finds, with
\* the content the index gives the digest of (crates/adapters/*/src/routes.rs).
THEOREM IndexIsServed == Spec => []ServedAsListed
<1>1. IInv => ServedAsListed
    <2> SUFFICES ASSUME IInv, NEW e \in Index PROVE e[2] # None /\ Serve(e[1]) = e[2]
        BY DEF ServedAsListed
    <2>1. CoreInv /\ ecosystem \in {"npm", "cargo", "nuget", "composer", "rubygems", "maven", "pypi"}
        BY NativeAssumption DEF IInv, CoreInv, TypeOK
    <2>2. PICK f \in File : e = <<f, artifacts[f]>> /\ artifacts[f] # None /\ release.status \in Readable
        <3>1. CASE ecosystem \in {"npm", "nuget"}
            <4>1. e = <<"main", artifacts["main"]>> /\ release.status \in Readable
                BY <3>1 DEF Index, NpmIndex, NugetIndex
            <4>2. artifacts["main"] # None
                BY <2>1, <3>1, <4>1 DEF CoreInv, OneFileOK, Plain
            <4> QED
                BY <4>1, <4>2 DEF File
        <3>2. CASE ecosystem \notin {"npm", "nuget"}
            <4>1. PICK statuses \in SUBSET Readable : e \in Listing(statuses)
                BY <2>1, <3>2 DEF Index, CargoIndex, ComposerIndex, RubygemsIndex, MavenIndex, PypiIndex, Readable
            <4> QED
                BY <4>1 DEF Listing
        <3> QED
            BY <3>1, <3>2
    <2> QED
        BY <2>1, <2>2, ServesRecorded
<1> QED
    BY <1>1, InitEstablishes, StepPreserves, PTL DEF Spec

\* Composer, Maven and PyPI insert a version only for who had write access when the
\* request last looked (the check after a lost race to create the package).
THEOREM VersionsAreInsertedByWriters == Spec => []InsertedByWriter
<1>1. IInv => InsertedByWriter
    BY DEF IInv, CoreInv, RowOK, InsertedByWriter
<1> QED
    BY <1>1, InitEstablishes, StepPreserves, PTL DEF Spec

\* A single-file publish that came to its end leaves no version in quarantine, as
\* the row goes when the object is refused.
THEOREM NoVersionIsBlocked == Spec => []NothingLeftInQuarantine
<1>1. IInv => NothingLeftInQuarantine
    <2> SUFFICES ASSUME IInv, SingleFile, Quiet, ~spoilt, release.status = "quarantine" PROVE FALSE
        BY DEF NothingLeftInQuarantine
    <2>1. release.id \in Push
        BY ReleaseTyped DEF IInv, CoreInv, RowOK, Exists, NoRelease, Release
    <2> QED
        BY <2>1 DEF IInv, CoreInv, OneFileOK, Quiet
<1> QED
    BY <1>1, InitEstablishes, StepPreserves, PTL DEF Spec

\* An npm dist-tag points to a version people can read (set_dist_tag_inner).
THEOREM TagsAreReadable == Spec => []TagIsReadable
<1>1. IInv => TagIsReadable
    BY DEF IInv, CoreInv, RowOK, TagIsReadable
<1> QED
    BY <1>1, InitEstablishes, StepPreserves, PTL DEF Spec

\* Where no object of a Maven version is refused, the registry implements FixedFiles:
\* a file that somebody could fetch never has another content.
THEOREM FilesAreFixed == ASSUME "maven" \notin Refusing PROVE Spec => VersionsAreFixed
<1>1. Init => Versions!Init
    <2> SUFFICES ASSUME Init PROVE Versions!Init
        OBVIOUS
    <2>1. CoreInv /\ artifacts = NoFiles
        BY InitEstablishes DEF IInv, Init, RegistryInit
    <2>2. \A f \in File : Serve(f) = None
        BY <2>1, ServesRecorded DEF NoFiles
    <2> QED
        BY <2>2 DEF Versions!Init, Served, Init
<1>2. IInv /\ IInv' /\ [Next]_vars => [Versions!Next]_<<Served, first>>
    <2> SUFFICES ASSUME IInv, IInv', [Next]_vars PROVE [Versions!Next]_<<Served, first>>
        OBVIOUS
    <2>1. CASE UNCHANGED vars
        BY <2>1 DEF vars, nativeVars, registry, names, rows, Served, Serve, NpmDownload, CargoDownload,
            NugetDownload, ComposerDownload, RubygemsDownload, MavenDownload, PypiDownload, Download
    <2>2. CASE Next
        <3>1. Remember
            BY <2>2, FirstStep DEF IInv
        <3>2. ASSUME NEW f \in File PROVE Served'[f] \in {None, first'[f]}
            <4>1. first'[f] = IF first[f] = None THEN Served'[f] ELSE first[f]
                BY <3>1 DEF Remember
            <4>2. Served'[f] \in {None, artifacts'[f]} /\ first'[f] \in {None, artifacts'[f]}
                BY ServesRecordedNext DEF IInv, Served, FirstOK
            <4> QED
                BY <4>1, <4>2
        <3>3. DOMAIN Served' = File
            BY DEF Served
        <3> QED
            BY <3>1, <3>2, <3>3 DEF Remember, Versions!Next
    <2> QED
        BY <2>1, <2>2
<1> QED
    BY <1>1, <1>2, InitEstablishes, StepPreserves, PTL DEF Spec, VersionsAreFixed, Versions!Spec
=============================================================================
