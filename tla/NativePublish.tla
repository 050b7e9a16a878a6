----------------------------- MODULE NativePublish ----------------------------
(* One version of one package of one ecosystem, published by the adapter   *)
(* of that ecosystem and moderated by the control plane, and what the      *)
(* adapter's own index and download make of it.                            *)
EXTENDS NpmPublish, CargoPublish, NugetPush, ComposerPublish, RubygemsPush, MavenDeploy, PypiUpload

VARIABLE first  \* history: the content each file was first served with

vars == <<nativeVars, first>>

Index ==
    CASE ecosystem = "npm" -> NpmIndex
      [] ecosystem = "cargo" -> CargoIndex
      [] ecosystem = "nuget" -> NugetIndex
      [] ecosystem = "composer" -> ComposerIndex
      [] ecosystem = "rubygems" -> RubygemsIndex
      [] ecosystem = "maven" -> MavenIndex
      [] ecosystem = "pypi" -> PypiIndex

Serve(f) ==
    CASE ecosystem = "npm" -> NpmDownload(f)
      [] ecosystem = "cargo" -> CargoDownload(f)
      [] ecosystem = "nuget" -> NugetDownload(f)
      [] ecosystem = "composer" -> ComposerDownload(f)
      [] ecosystem = "rubygems" -> RubygemsDownload(f)
      [] ecosystem = "maven" -> MavenDownload(f)
      [] ecosystem = "pypi" -> PypiDownload(f)

Served == [f \in File |-> Serve(f)]

Init == RegistryInit /\ first = [f \in File |-> None]

Remember == first' = [f \in File |-> IF first[f] = None THEN Served'[f] ELSE first[f]]

Npm == ecosystem = "npm" /\ ((\E p \in Push : NpmPublish(p)) \/ NpmManage) /\ Remember
Cargo == /\ ecosystem = "cargo"
         /\ (\E p \in Push : CargoPublish(p)) \/ (\E m \in Manager : CargoManage(m))
         /\ Remember
Nuget == /\ ecosystem = "nuget"
         /\ (\E p \in Push : NugetPush(p)) \/ (\E m \in Manager : NugetManage(m))
         /\ Remember
Composer == /\ ecosystem = "composer"
            /\ (\E p \in Push : ComposerPublish(p)) \/ ComposerYank
            /\ Remember
Rubygems == /\ ecosystem = "rubygems"
            /\ (\E p \in Push : RubygemsPush(p)) \/ RubygemsYank
            /\ Remember
Maven == ecosystem = "maven" /\ (\E p \in Push : MavenDeploy(p)) /\ Remember
Pypi == ecosystem = "pypi" /\ (\E p \in Push : PypiUpload(p)) /\ Remember
Moderated == ControlPlane /\ Remember
Interrupted == (\E p \in Push : CutShort(p)) /\ Remember

Next ==
    \/ Npm \/ Cargo \/ Nuget \/ Composer \/ Rubygems \/ Maven \/ Pypi
    \/ Moderated \/ Interrupted

Spec == Init /\ [][Next]_vars

-----------------------------------------------------------------------------
(* Properties.                                                             *)

SingleFile == ecosystem \notin {"maven", "pypi"}
Rechecking == ecosystem \in {"composer", "maven", "pypi"}
Quiet == \A p \in Push : push[p].pc \in {"idle", "done"}

(* Requests, rows and objects are of the shape the handlers give them.     *)
TypeOK ==
    /\ ecosystem \in Ecosystem
    /\ package \in User \cup {None}
    /\ writers \subseteq User
    /\ release \in [id : Push \cup {None}, yanked : BOOLEAN, deprecated : BOOLEAN,
                    status : Readable \cup {"absent", "quarantine", "scanning"}]
    /\ artifacts \in [File -> Content \cup {None}]
    /\ objects \subseteq Push \X File \X Content
    /\ extras \in {"none", "listed", "unlisted"}
    /\ tag \in Push \cup {None}
    /\ DOMAIN push = Push /\ DOMAIN manage = Manager

(* Whatever the index of an ecosystem lists, a download finds, and with    *)
(* the very content the index gives the digest of: the order of artifact_  *)
(* put, INSERT INTO artifacts and UPDATE releases in every publish handler,*)
(* against yanks, the control plane and requests cut short.                *)
ServedAsListed == \A e \in Index : e[2] # None /\ Serve(e[1]) = e[2]

(* Where the adapter looks again after it lost the race to create the      *)
(* package, no version is inserted by a request that had no write access   *)
(* when it last looked (recheck of Composer, Maven and PyPI).              *)
InsertedByWriter == Exists /\ Rechecking => push[release.id].entitled

(* A single-file publish that came to its end leaves no quarantined        *)
(* version behind that would block the version for ever: a refused object  *)
(* takes the row along (the DELETE after a failed artifact_put).           *)
NothingLeftInQuarantine ==
    SingleFile /\ Quiet /\ ~spoilt => release.status # "quarantine"

(* An npm dist-tag always points to a version people can read: a tag is    *)
(* set only after the version's status was checked, and the version neither*)
(* goes back to quarantine nor away afterwards.                            *)
TagIsReadable == tag # None => tag = release.id /\ release.status \in Readable

(* A file that was readable once is never served with another content.     *)
NeverReplaced == \A f \in File : Serve(f) \in {None, first[f]}

(* The registry implements FixedFiles: what is served, and what was first. *)
Versions == INSTANCE FixedFiles WITH shown <- Served, fixed <- first
VersionsAreFixed == Versions!Spec
=============================================================================
