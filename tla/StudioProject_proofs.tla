------------------------- MODULE StudioProject_proofs -------------------------
(***************************************************************************)
(* Proofs about the unlocked project directory, for every set of requests, *)
(* every list of artifacts and every number of failures: whatever the      *)
(* interleaving, an edit is lost only to a request that overlapped it,     *)
(* artifacts of two generations need an overlap or an ended build, and a   *)
(* package not described by its manifest needs one too.                    *)
(***************************************************************************)
EXTENDS StudioProject, TLAPS

-----------------------------------------------------------------------------
(* What the variables hold.                                                *)

ContentValues == Contents \cup {"example", Never}
ModeValues == Modes \cup {"bearer"}
Generations == [source : ContentValues, mode : ModeValues,
                overrides : OverrideSets \cup {"empty", Never}]
Builds == Generations \cup {Never}
Projects == [file : {"json", "yaml"}, mode : ModeValues, last_build : Builds]
Pcs == Ended \cup
  {"load", "write_source", "write_overrides", "read_source", "read_overrides", "write", "save",
   "load_again", "remove", "make", "copy", "inventory", "load_for_digest", "digest", "manifest"}
FilesTyped ==
  /\ project \in Projects
  /\ contents \in [json : ContentValues, yaml : ContentValues]
  /\ overrides \in OverrideSets \cup {"empty"}
  /\ generated \in [ToSet(Files) -> Builds]
  /\ package \in [exists : BOOLEAN, copies : {package.copies}, manifest : {package.manifest}]

-----------------------------------------------------------------------------
(* Where a request is, and what it holds there.                            *)

Reading == {"read_source", "read_overrides"}
Holding == {"write_source", "save", "write"} \cup Reading
Packing == {"make", "copy", "inventory", "load_for_digest", "digest", "manifest"}
Deploying == {"load_again", "remove"} \cup Packing

LocalTyped(q) ==
  q \in [op : Editing \cup Building \cup {"overrides", "none"}, arg : {q.arg}, pc : Pcs,
         loaded : Projects \cup {Never}, gen : Builds, k : Nat, inventory : {q.inventory},
         digest : ContentValues, met : SUBSET Requests]

(* The stages of an operation are its own. *)
LocalStage(q) ==
  /\ q.pc = "idle" <=> q.op = "none"
  /\ q.pc = "idle" => q.met = {}
  /\ q.pc = "write_source" => q.op = "import"
  /\ q.pc = "write_overrides" => q.op = "overrides"
  /\ q.pc \in Reading \cup {"write"} => q.op \in Building
  /\ q.pc = "save" => q.op \in Editing \cup Building
  /\ q.pc \in Deploying => q.op = "deploy"

LocalArgument(q) ==
  /\ q.op = "import" => q.arg \in [file : {"json", "yaml"}, content : Contents]
  /\ q.op = "configure" => q.arg \in Modes
  /\ q.op = "overrides" => q.arg \in OverrideSets

(* What a stage uses was read before it. *)
LocalHeld(q) ==
  /\ q.pc \in Holding \cup {"write_overrides"} \cup Deploying => q.loaded \in Projects
  /\ q.pc \in {"read_overrides", "write"} \cup Deploying => q.gen \in Generations
  /\ q.pc = "save" /\ q.op \in Building => q.gen \in Generations
  /\ q.pc = "write" => q.k \in 1..Len(Files)
  /\ q.pc = "copy" => q.k \in 1..(Len(Files) + 1)
  /\ q.pc \notin {"write", "copy"} => q.k = 1

Proper(q) == LocalTyped(q) /\ LocalStage(q) /\ LocalArgument(q) /\ LocalHeld(q)
RequestsProper ==
  /\ req = [r \in Requests |-> req[r]]
  /\ \A r \in Requests : Proper(req[r])

(* Two requests under way at one time have met. *)
MetInv == \A r, s \in Running : r # s => s \in req[r].met

-----------------------------------------------------------------------------
(* Edits.                                                                  *)

Overwriting(edit) == (Editing \ {edit}) \cup Building

(* Until the edit was overwritten by a request it met, the descriptor and  *)
(* every copy of it that can be saved hold it.                             *)
FileInv ==
  LET r == editor.file IN
  r # Nobody =>
    /\ r \in Requests /\ req[r].op = "import"
    /\ \/ Met(r, Overwriting("import"))
       \/ /\ project.file = req[r].arg.file
          /\ \A s \in Of(Overwriting("import")) :
               req[s].pc \in Holding => req[s].loaded.file = req[r].arg.file
ModeInv ==
  LET r == editor.mode IN
  r # Nobody =>
    /\ r \in Requests /\ req[r].op = "configure"
    /\ \/ Met(r, Overwriting("configure"))
       \/ /\ project.mode = req[r].arg
          /\ \A s \in Of(Overwriting("configure")) :
               req[s].pc \in Holding => req[s].loaded.mode = req[r].arg

-----------------------------------------------------------------------------
(* Generations.                                                            *)

Overlapped == \E r \in Of(Building) : Met(r, Building \cup Editing)

(* What a build has written is its generation. *)
WriteInv ==
  \A r \in Of(Building) :
    Met(r, Building) \/
    /\ req[r].pc = "write" => \A i \in 1..(req[r].k - 1) : generated[Files[i]] = req[r].gen
    /\ req[r].pc = "save" => \A f \in ToSet(Files) : generated[f] = req[r].gen

(* An edit holds the last build there is. *)
EditHoldsInv ==
  \A s \in Of(Editing) :
    req[s].pc \in Holding => req[s].loaded.last_build = project.last_build \/ Overlapped

-----------------------------------------------------------------------------
(* Packages.                                                               *)

Excused(d) ==
  \/ Met(d, {"import"} \cup Building)
  \/ \E s \in req[d].met \cap Of({"configure"}) :
       (req[s].met \ {d}) \cap Of(Editing \cup Building) # {}

Copied(name, value) == name \in DOMAIN package.copies /\ package.copies[name] = value
AllCopied(q) ==
  /\ \A f \in ToSet(Files) : Copied(f, q.gen)
  /\ Copied("source", contents[project.file])

(* An undisturbed deployment works on the project as it is. *)
Undisturbed(q) ==
  /\ q.pc \in Reading \cup {"write", "save"} \cup Deploying => q.loaded.file = project.file
  /\ q.pc \in {"read_overrides", "write", "save"} \cup Deploying =>
       q.gen.source = contents[project.file]
  /\ q.pc = "write" => \A i \in 1..(q.k - 1) : generated[Files[i]] = q.gen
  /\ q.pc \in {"save"} \cup Deploying => \A f \in ToSet(Files) : generated[f] = q.gen
  /\ q.pc = "copy" => \A i \in 1..(q.k - 1) : Copied(Files[i], q.gen)
  /\ q.pc \in Packing \ {"make", "copy"} => AllCopied(q)
  /\ q.pc \in {"load_for_digest", "digest", "manifest"} => q.inventory = package.copies
  /\ q.pc = "manifest" => q.digest = contents[project.file]
DeployInv == \A d \in Of({"deploy"}) : Excused(d) \/ Undisturbed(req[d])

(* What a configuration is about to save is the source file of now, unless *)
(* another request than d that saves the descriptor has met it.            *)
ConfigureInv ==
  \A s \in Of({"configure"}), d \in Requests :
    req[s].pc = "save" =>
      \/ req[s].loaded.file = project.file
      \/ (req[s].met \ {d}) \cap Of(Editing \cup Building) # {}
      \/ d \in Of(Editing \cup {"build"})
      \/ d \in Of({"deploy"}) /\ Excused(d)

(* Whoever works on a package with a manifest has met who wrote that.      *)
ManifestInv ==
  package.manifest = Never \/
  /\ deployer \in Requests
  /\ \A t \in Requests : req[t].pc \in Packing => t \in req[deployer].met

StateInv == FilesTyped /\ RequestsProper
ProjectInv ==
  /\ StateInv /\ MetInv
  /\ FileInv /\ ModeInv
  /\ WriteInv /\ EditHoldsInv /\ GenerationsAgree
  /\ DeployInv /\ ConfigureInv /\ ManifestInv /\ PackageDescribed

-----------------------------------------------------------------------------
(* Types, stages and what is held.                                         *)

(* What a request is called with, by its operation. *)
LEMMA ArgumentsTyped ==
  ASSUME NEW op \in Editing \cup Building \cup {"overrides"}, NEW arg \in Arguments(op)
  PROVE  /\ op = "import" => arg \in [file : {"json", "yaml"}, content : Contents]
         /\ op = "configure" => arg \in Modes
         /\ op = "overrides" => arg \in OverrideSets
<1>1. CASE op = "import"
  BY <1>1 DEF Arguments
<1>2. CASE op = "configure"
  BY <1>2 DEF Arguments
<1>3. CASE op = "overrides"
  BY <1>3 DEF Arguments
<1> QED
  BY <1>1, <1>2, <1>3 DEF Editing, Building

(* A step of one request changes that request's record only. *)
LEMMA OneRequest ==
  ASSUME RequestsProper, NEW r \in Requests, NEW q, Proper(q), req' = [req EXCEPT ![r] = q]
  PROVE  RequestsProper'
<1> HIDE DEF Proper
<1>1. \A s \in Requests : req'[s] = IF s = r THEN q ELSE req[s]
  BY DEF RequestsProper
<1>2. \A s \in Requests : Proper(req'[s])
  BY <1>1 DEF RequestsProper
<1>3. req' = [s \in Requests |-> req'[s]]
  BY DEF RequestsProper
<1>4. RequestsProper' <=> /\ req' = [s \in Requests |-> req'[s]]
                         /\ \A s \in Requests : Proper(req'[s])
  BY DEF RequestsProper, Proper, LocalTyped, LocalStage, LocalArgument, LocalHeld
<1> QED
  BY <1>2, <1>3, <1>4

(* The record of a request that has ended, and of one that failed. *)
Closed(q, pc) == [q EXCEPT !.pc = pc, !.loaded = Never, !.k = 1]

(* A request that has ended holds nothing any more. *)
LEMMA ClosedProper ==
  ASSUME NEW q, Proper(q), q.pc # "idle", NEW pc \in {"done", "failed"}
  PROVE  Proper(Closed(q, pc))
<1> DEFINE next == Closed(q, pc)
<1>1. /\ next.pc = pc /\ next.loaded = Never /\ next.k = 1
      /\ next.op = q.op /\ next.arg = q.arg
      /\ LocalTyped(next)
  BY DEF Closed, Proper, LocalTyped, Pcs, Ended
<1>2. LocalStage(q) /\ LocalArgument(q)
  BY DEF Proper
<1> HIDE DEF next
<1>3. LocalStage(next)
  BY <1>1, <1>2 DEF LocalStage, Reading, Packing, Deploying
<1>4. LocalArgument(next)
  BY <1>1, <1>2 DEF LocalArgument
<1>5. LocalHeld(next)
  BY <1>1 DEF LocalHeld, Reading, Packing, Deploying, Holding
<1> QED
  BY <1>1, <1>3, <1>4, <1>5 DEF Proper, next

(* Ending and failing leave such a record. *)
LEMMA EndsCloses ==
  ASSUME RequestsProper, NEW r \in Requests
  PROVE  /\ Ends(r) => req' = [req EXCEPT ![r] = Closed(req[r], "done")]
         /\ Fails(r) => req' = [req EXCEPT ![r] = Closed(req[r], "failed")]
<1>1. DOMAIN req = Requests /\ LocalTyped(req[r])
  BY DEF RequestsProper, Proper
<1>2. Ends(r) => req' = [req EXCEPT ![r] = Closed(req[r], "done")]
  BY <1>1 DEF Ends, Closed, LocalTyped
<1>3. Fails(r) => req' = [req EXCEPT ![r] = Closed(req[r], "failed")]
  BY <1>1 DEF Fails, Closed, LocalTyped
<1> QED
  BY <1>2, <1>3

(* The types, the stages and what a request holds at each hold throughout. *)
LEMMA StateStep ==
  ASSUME StateInv, [Next]_vars
  PROVE  StateInv'
<1> USE ProjectAssumption DEF StateInv
<1>1. ASSUME UNCHANGED vars PROVE StateInv'
  <2>1. FilesTyped'
    BY <1>1 DEF vars, files, FilesTyped
  <2>2. RequestsProper'
    BY <1>1 DEF vars, RequestsProper, Proper, LocalTyped, LocalStage, LocalArgument, LocalHeld
  <2> QED
    BY <2>1, <2>2
<1> SUFFICES ASSUME NEW r \in Requests,
                    \/ \E op \in Editing \cup Building \cup {"overrides"} :
                         \E arg \in Arguments(op) : Begin(r, op, arg)
                    \/ Step(r)
                    \/ Fail(r)
             PROVE  StateInv'
  BY <1>1 DEF Next
<1> DEFINE q == req[r]
<1>a. Proper(q) /\ LocalTyped(q) /\ DOMAIN req = Requests
  BY DEF RequestsProper, Proper
<1> USE DEF At, Reading, Packing, Deploying, Holding, Editing, Building
<1>2. CASE Load(r)
  <2> DEFINE next == [q EXCEPT !.loaded = project, !.pc = CASE q.op = "import" -> "write_source"
                                    [] q.op = "configure" -> "save"
                                    [] q.op = "overrides" -> "write_overrides"
                                    [] OTHER -> "read_source"]
  <2>1. FilesTyped'
    BY <1>2, <1>a DEF Load, files, FilesTyped
  <2>2. req' = [req EXCEPT ![r] = next]
    BY <1>2, <1>a DEF Load, Goto, RequestsProper
  <2>3. LocalTyped(next)
    BY <1>2, <1>a DEF Load, FilesTyped, Proper, LocalTyped, LocalHeld, Pcs, Ended
  <2>4. Proper(next)
    BY <1>2, <1>a, <2>3 DEF Load, FilesTyped, Proper, LocalTyped, LocalStage, LocalArgument,
       LocalHeld
  <2> QED
    BY <2>1, <2>2, <2>4, OneRequest
<1>3. CASE WriteSource(r)
  <2> DEFINE next == [q EXCEPT !.pc = "save"]
  <2>1. FilesTyped'
    BY <1>3, <1>a DEF WriteSource, files, FilesTyped, Proper, LocalStage, LocalArgument, ContentValues
  <2>2. req' = [req EXCEPT ![r] = next]
    BY <1>3, <1>a DEF WriteSource, Goto, RequestsProper
  <2>3. LocalTyped(next)
    BY <1>3, <1>a DEF WriteSource, FilesTyped, Proper, LocalTyped, LocalHeld, Pcs, Ended
  <2>4. Proper(next)
    BY <1>3, <1>a, <2>3 DEF WriteSource, FilesTyped, Proper, LocalTyped, LocalStage, LocalArgument,
       LocalHeld
  <2> QED
    BY <2>1, <2>2, <2>4, OneRequest
<1>4. CASE ReadSource(r)
  <2> DEFINE next == [q EXCEPT !.pc = "read_overrides",
                          !.gen = [source |-> contents[q.loaded.file],
                                   mode |-> q.loaded.mode, overrides |-> Never]]
  <2>1. FilesTyped'
    BY <1>4, <1>a DEF ReadSource, files, FilesTyped
  <2>2. req' = [req EXCEPT ![r] = next]
    BY <1>4, <1>a DEF ReadSource, Goto, RequestsProper
  <2>3. LocalTyped(next)
    <3>1. q.pc = "read_source" /\ q.loaded \in Projects
      BY <1>4, <1>a DEF ReadSource, Proper, LocalHeld, Holding, Reading
    <3>2. [source |-> contents[q.loaded.file], mode |-> q.loaded.mode, overrides |-> Never] \in Builds
      BY <1>4, <1>a, <3>1 DEF FilesTyped, Projects, Builds, Generations
    <3> QED
      BY <1>a, <3>1, <3>2 DEF Proper, LocalTyped, Pcs
  <2>4. Proper(next)
    BY <1>4, <1>a, <2>3 DEF ReadSource, FilesTyped, Proper, LocalTyped, LocalStage, LocalArgument,
       LocalHeld, Projects, Builds, Generations
  <2> QED
    BY <2>1, <2>2, <2>4, OneRequest
<1>5. CASE ReadOverrides(r)
  <2> DEFINE next == [q EXCEPT !.pc = "write", !.gen = [q.gen EXCEPT !.overrides = overrides]]
  <2>1. FilesTyped'
    BY <1>5, <1>a DEF ReadOverrides, files, FilesTyped
  <2>2. req' = [req EXCEPT ![r] = next]
    BY <1>5, <1>a DEF ReadOverrides, Goto, RequestsProper
  <2>3. LocalTyped(next)
    BY <1>5, <1>a DEF ReadOverrides, FilesTyped, Proper, LocalTyped, LocalHeld, Pcs, Ended, Builds, Generations
  <2>4. next.gen \in Generations /\ next.k = 1 /\ 1 \in 1..Len(Files)
    BY <1>5, <1>a DEF ReadOverrides, Proper, LocalTyped, LocalHeld, FilesTyped, Generations
  <2>5. Proper(next)
    BY <1>5, <1>a, <2>3, <2>4 DEF ReadOverrides, Proper, LocalTyped, LocalStage, LocalArgument,
       LocalHeld
  <2> QED
    BY <2>1, <2>2, <2>5, OneRequest
<1>6. CASE RemovePackage(r)
  <2> DEFINE next == [q EXCEPT !.pc = "make"]
  <2>1. FilesTyped'
    BY <1>6, <1>a DEF RemovePackage, files, FilesTyped, NoPackage
  <2>2. req' = [req EXCEPT ![r] = next]
    BY <1>6, <1>a DEF RemovePackage, Goto, RequestsProper
  <2>3. LocalTyped(next)
    BY <1>6, <1>a DEF RemovePackage, FilesTyped, Proper, LocalTyped, LocalHeld, Pcs, Ended
  <2>4. Proper(next)
    BY <1>6, <1>a, <2>3 DEF RemovePackage, FilesTyped, Proper, LocalTyped, LocalStage, LocalArgument,
       LocalHeld
  <2> QED
    BY <2>1, <2>2, <2>4, OneRequest
<1>7. CASE MakePackage(r)
  <2> DEFINE next == [q EXCEPT !.pc = "copy"]
  <2>1. FilesTyped'
    BY <1>7, <1>a DEF MakePackage, files, FilesTyped
  <2>2. req' = [req EXCEPT ![r] = next]
    BY <1>7, <1>a DEF MakePackage, Goto, RequestsProper
  <2>3. LocalTyped(next)
    BY <1>7, <1>a DEF MakePackage, FilesTyped, Proper, LocalTyped, LocalHeld, Pcs, Ended
  <2>4. Proper(next)
    BY <1>7, <1>a, <2>3 DEF MakePackage, FilesTyped, Proper, LocalTyped, LocalStage, LocalArgument,
       LocalHeld
  <2> QED
    BY <2>1, <2>2, <2>4, OneRequest
<1>8. CASE ReadDigest(r)
  <2> DEFINE next == [q EXCEPT !.digest = contents[q.loaded.file], !.pc = "manifest"]
  <2>1. FilesTyped'
    BY <1>8, <1>a DEF ReadDigest, files, FilesTyped
  <2>2. req' = [req EXCEPT ![r] = next]
    BY <1>8, <1>a DEF ReadDigest, Goto, RequestsProper
  <2>3. LocalTyped(next)
    BY <1>8, <1>a DEF ReadDigest, FilesTyped, Proper, LocalTyped, LocalHeld, Pcs, Ended, Projects
  <2>4. Proper(next)
    BY <1>8, <1>a, <2>3 DEF ReadDigest, FilesTyped, Proper, LocalTyped, LocalStage, LocalArgument,
       LocalHeld, Projects
  <2> QED
    BY <2>1, <2>2, <2>4, OneRequest
<1>9. CASE WriteOverrides(r)
  <2>1. FilesTyped'
    BY <1>9, <1>a DEF WriteOverrides, FilesTyped, Proper, LocalStage, LocalArgument
  <2>2. Proper(Closed(q, "done"))
    BY <1>9, <1>a, ClosedProper DEF WriteOverrides
  <2> QED
    BY <1>9, <2>1, <2>2, EndsCloses, OneRequest DEF WriteOverrides
<1>10. CASE WriteArtifact(r)
  <2>1. q.k \in 1..Len(Files) /\ q.gen \in Generations /\ Len(Files) \in Nat
    BY <1>10, <1>a DEF WriteArtifact, Proper, LocalHeld
  <2>2. FilesTyped'
    BY <1>10, <2>1 DEF WriteArtifact, FilesTyped, Builds
  <2>3. CASE q.k < Len(Files)
    <3> DEFINE next == [q EXCEPT !.k = q.k + 1]
    <3>1. req' = [req EXCEPT ![r] = next]
      BY <1>10, <1>a, <2>3 DEF WriteArtifact
    <3>2. /\ next.pc = "write" /\ next.op = q.op /\ next.arg = q.arg /\ next.loaded = q.loaded
          /\ next.gen = q.gen /\ next.k \in 1..Len(Files)
          /\ LocalTyped(next)
      BY <1>10, <1>a, <2>1, <2>3 DEF WriteArtifact, LocalTyped
    <3>3. LocalHeld(next)
      BY <1>10, <1>a, <2>1, <3>2 DEF WriteArtifact, Proper, LocalHeld
    <3>4. LocalStage(next) /\ LocalArgument(next)
      BY <1>10, <1>a, <3>2 DEF WriteArtifact, Proper, LocalStage, LocalArgument
    <3>5. Proper(next)
      BY <3>2, <3>3, <3>4 DEF Proper
    <3> QED
      BY <2>2, <3>1, <3>5, OneRequest
  <2>4. CASE ~(q.k < Len(Files))
    <3> DEFINE next == [q EXCEPT !.k = 1, !.pc = "save"]
    <3>1. req' = [req EXCEPT ![r] = next]
      BY <1>10, <1>a, <2>4 DEF WriteArtifact
    <3>2. LocalTyped(next)
      BY <1>a, <2>1 DEF LocalTyped, Pcs
    <3>3. Proper(next)
      BY <1>10, <1>a, <2>1, <3>2 DEF WriteArtifact, Proper, LocalTyped, LocalStage,
         LocalArgument, LocalHeld
    <3> QED
      BY <2>2, <3>1, <3>3, OneRequest
  <2> QED
    BY <2>3, <2>4
<1>11. CASE Save(r)
  <2>1. q.op \in Editing \cup Building /\ q.loaded \in Projects
    BY <1>11, <1>a DEF Save, Proper, LocalStage, LocalHeld
  <2>2. Saved(r) \in Projects
    BY <1>11, <1>a, <2>1 DEF Save, Saved, Projects, ModeValues, Builds, Proper, LocalTyped,
       LocalArgument, LocalHeld
  <2>3. FilesTyped'
    BY <1>11, <2>2 DEF Save, FilesTyped
  <2>4. CASE q.op = "deploy"
    <3> DEFINE next == [q EXCEPT !.pc = "load_again"]
    <3>1. req' = [req EXCEPT ![r] = next]
      BY <1>11, <1>a, <2>4 DEF Save, Goto
    <3>2. LocalTyped(next)
      BY <1>a DEF LocalTyped, Pcs
    <3>3. Proper(next)
      BY <1>11, <1>a, <2>1, <2>4, <3>2 DEF Save, Proper, LocalTyped, LocalStage,
         LocalArgument, LocalHeld
    <3> QED
      BY <2>3, <3>1, <3>3, OneRequest
  <2>5. CASE q.op # "deploy"
    <3>1. Proper(Closed(q, "done"))
      BY <1>11, <1>a, ClosedProper DEF Save
    <3> QED
      BY <1>11, <2>3, <2>5, <3>1, EndsCloses, OneRequest DEF Save
  <2> QED
    BY <2>4, <2>5
<1>12. CASE LoadAgain(r)
  <2> DEFINE next == [q EXCEPT !.loaded = project,
                               !.pc = IF q.pc = "load_again" THEN "remove" ELSE "digest"]
  <2>1. FilesTyped'
    BY <1>12 DEF LoadAgain, files, FilesTyped
  <2>2. req' = [req EXCEPT ![r] = next]
    BY <1>12, <1>a DEF LoadAgain
  <2>3. LocalTyped(next)
    BY <1>12, <1>a DEF LoadAgain, FilesTyped, LocalTyped, Pcs
  <2>4. Proper(next)
    BY <1>12, <1>a, <2>3 DEF LoadAgain, FilesTyped, Proper, LocalTyped, LocalStage,
       LocalArgument, LocalHeld
  <2> QED
    BY <2>1, <2>2, <2>4, OneRequest
<1>13. CASE CopyArtifact(r)
  <2>1. q.k \in 1..(Len(Files) + 1) /\ Len(Files) \in Nat
    BY <1>13, <1>a DEF CopyArtifact, Proper, LocalHeld
  <2>2. FilesTyped'
    BY <1>13 DEF CopyArtifact, FilesTyped
  <2>3. CASE package.exists
    <3> DEFINE last == q.k > Len(Files)
               next == [q EXCEPT !.k = IF last THEN 1 ELSE q.k + 1,
                                 !.pc = IF last THEN "inventory" ELSE q.pc]
    <3>1. req' = [req EXCEPT ![r] = next]
      BY <1>13, <1>a, <2>3 DEF CopyArtifact
    <3>2. LocalTyped(next)
      <4>1. (IF last THEN 1 ELSE q.k + 1) \in Nat /\ (IF last THEN "inventory" ELSE q.pc) \in Pcs
        BY <1>a, <2>1 DEF LocalTyped, Pcs
      <4> QED
        BY <1>a, <4>1 DEF LocalTyped
    <3>3. Proper(next)
      BY <1>13, <1>a, <2>1, <3>2 DEF CopyArtifact, Proper, LocalTyped, LocalStage,
         LocalArgument, LocalHeld
    <3> QED
      BY <2>2, <3>1, <3>3, OneRequest
  <2>4. CASE ~package.exists
    <3>1. Proper(Closed(q, "failed"))
      BY <1>13, <1>a, ClosedProper DEF CopyArtifact
    <3> QED
      BY <1>13, <2>2, <2>4, <3>1, EndsCloses, OneRequest DEF CopyArtifact
  <2> QED
    BY <2>3, <2>4
<1>14. CASE Inventory(r)
  <2>1. FilesTyped'
    BY <1>14 DEF Inventory, files, FilesTyped
  <2>2. CASE package.exists
    <3> DEFINE next == [q EXCEPT !.inventory = package.copies, !.pc = "load_for_digest"]
    <3>1. req' = [req EXCEPT ![r] = next]
      BY <1>14, <1>a, <2>2 DEF Inventory
    <3>2. LocalTyped(next)
      BY <1>a DEF LocalTyped, Pcs
    <3>3. Proper(next)
      BY <1>14, <1>a, <3>2 DEF Inventory, Proper, LocalTyped, LocalStage,
         LocalArgument, LocalHeld
    <3> QED
      BY <2>1, <3>1, <3>3, OneRequest
  <2>3. CASE ~package.exists
    <3>1. Proper(Closed(q, "failed"))
      BY <1>14, <1>a, ClosedProper DEF Inventory
    <3> QED
      BY <1>14, <2>1, <2>3, <3>1, EndsCloses, OneRequest DEF Inventory
  <2> QED
    BY <2>2, <2>3
<1>15. CASE WriteManifest(r)
  <2>1. FilesTyped'
    BY <1>15 DEF WriteManifest, FilesTyped
  <2>2. Proper(Closed(q, "done")) /\ Proper(Closed(q, "failed"))
    BY <1>15, <1>a, ClosedProper DEF WriteManifest
  <2> QED
    BY <1>15, <2>1, <2>2, EndsCloses, OneRequest DEF WriteManifest
<1>16. CASE Fail(r)
  <2>1. FilesTyped'
    BY <1>16 DEF Fail, files, FilesTyped
  <2>2. Proper(Closed(q, "failed"))
    BY <1>16, <1>a, ClosedProper DEF Fail, Running, Ended
  <2> QED
    BY <1>16, <2>1, <2>2, EndsCloses, OneRequest DEF Fail
<1>17. ASSUME NEW op \in Editing \cup Building \cup {"overrides"}, NEW arg \in Arguments(op),
              Begin(r, op, arg)
       PROVE  StateInv'
  <2> DEFINE new == [q EXCEPT !.op = op, !.arg = arg, !.pc = "load", !.met = Running]
             met(s) == [req[s] EXCEPT !.met = @ \cup {r}]
  <2>1. FilesTyped'
    BY <1>17 DEF Begin, files, FilesTyped
  <2>2. req' = [s \in Requests |-> IF s = r THEN new
                                   ELSE IF s \in Running THEN met(s) ELSE req[s]]
    BY <1>17 DEF Begin
  <2>3. LocalTyped(new)
    BY <1>17, <1>a DEF Begin, LocalTyped, Pcs, Running
  <2>4. Proper(new)
    <3>1. new.op = op /\ new.arg = arg /\ new.pc = "load" /\ new.k = 1 /\ op # "none"
      BY <1>17, <1>a DEF Begin, Proper, LocalTyped, LocalHeld, Ended
    <3>2. LocalArgument(new)
      BY <3>1, ArgumentsTyped DEF LocalArgument
    <3>3. LocalStage(new) /\ LocalHeld(new)
      BY <3>1 DEF LocalStage, LocalHeld
    <3> QED
      BY <2>3, <3>2, <3>3 DEF Proper
  <2>5. ASSUME NEW s \in Requests, s \in Running PROVE Proper(met(s))
    <3>1. Proper(req[s]) /\ LocalTyped(req[s]) /\ req[s].pc # "idle"
      BY <2>5 DEF RequestsProper, Proper, Running, Ended
    <3>2. LocalTyped(met(s))
      BY <3>1 DEF LocalTyped
    <3> QED
      BY <3>1, <3>2 DEF Proper, LocalTyped, LocalStage, LocalArgument, LocalHeld
  <2>6. \A s \in Requests : Proper(req'[s])
    <3> HIDE DEF Proper, new, met
    <3> QED
      BY <2>2, <2>4, <2>5 DEF RequestsProper
  <2>7. req' = [s \in Requests |-> req'[s]]
    BY <2>2
  <2>8. RequestsProper'
    BY <2>6, <2>7 DEF RequestsProper, Proper, LocalTyped, LocalStage, LocalArgument, LocalHeld
  <2> QED
    BY <2>1, <2>8
<1> QED
  BY <1>2, <1>3, <1>4, <1>5, <1>6, <1>7, <1>8, <1>9, <1>10, <1>11, <1>12, <1>13, <1>14,
     <1>15, <1>16, <1>17 DEF Step

-----------------------------------------------------------------------------
(* What a step changes in the requests.                                    *)

Others(r) == \A s \in Requests \ {r} : req'[s] = req[s]
Kept(r) ==
  /\ req'[r].op = req[r].op /\ req'[r].arg = req[r].arg /\ req'[r].met = req[r].met
  /\ Others(r)
Moves(r, pc) == Kept(r) /\ req'[r].pc = pc
SameLoaded(r) == req'[r].loaded = req[r].loaded
SameGen(r) == req'[r].gen = req[r].gen
SameInventory(r) == req'[r].inventory = req[r].inventory
SameDigest(r) == req'[r].digest = req[r].digest
Same(r) == SameLoaded(r) /\ SameGen(r) /\ SameInventory(r) /\ SameDigest(r)

(* The changes of each action to the record of its request. *)
LEMMA Effects ==
  ASSUME StateInv, NEW r \in Requests
  PROVE  /\ Load(r) =>
              /\ Kept(r) /\ req'[r].loaded = project /\ req'[r].k = req[r].k
              /\ SameGen(r) /\ SameInventory(r) /\ SameDigest(r)
              /\ req[r].op = "import" => req'[r].pc = "write_source"
              /\ req[r].op = "configure" => req'[r].pc = "save"
              /\ req[r].op = "overrides" => req'[r].pc = "write_overrides"
              /\ req[r].op \in Building => req'[r].pc = "read_source"
         /\ WriteSource(r) => Moves(r, "save") /\ Same(r)
         /\ WriteOverrides(r) => Moves(r, "done")
         /\ ReadSource(r) =>
              /\ Moves(r, "read_overrides") /\ SameLoaded(r)
              /\ req'[r].gen.source = contents[req[r].loaded.file]
         /\ ReadOverrides(r) =>
              /\ Moves(r, "write") /\ SameLoaded(r) /\ req'[r].k = 1
              /\ req'[r].gen.source = req[r].gen.source
         /\ WriteArtifact(r) =>
              /\ Kept(r) /\ Same(r)
              /\ \/ req[r].k < Len(Files) /\ req'[r].pc = "write" /\ req'[r].k = req[r].k + 1
                 \/ req[r].k = Len(Files) /\ req'[r].pc = "save"
         /\ Save(r) =>
              /\ Kept(r)
              /\ \/ req[r].op = "deploy" /\ req'[r].pc = "load_again" /\ Same(r)
                 \/ req[r].op # "deploy" /\ req'[r].pc = "done"
         /\ LoadAgain(r) =>
              /\ Kept(r) /\ req'[r].loaded = project
              /\ SameGen(r) /\ SameInventory(r) /\ SameDigest(r)
              /\ \/ req[r].pc = "load_again" /\ req'[r].pc = "remove"
                 \/ req[r].pc = "load_for_digest" /\ req'[r].pc = "digest"
         /\ RemovePackage(r) => Moves(r, "make") /\ Same(r)
         /\ MakePackage(r) => Moves(r, "copy") /\ Same(r) /\ req'[r].k = req[r].k
         /\ CopyArtifact(r) =>
              /\ Kept(r)
              /\ \/ ~package.exists /\ req'[r].pc = "failed"
                 \/ /\ package.exists /\ Same(r)
                    /\ \/ req[r].k = Len(Files) + 1 /\ req'[r].pc = "inventory"
                       \/ req[r].k <= Len(Files) /\ req'[r].pc = "copy" /\ req'[r].k = req[r].k + 1
         /\ Inventory(r) =>
              /\ Kept(r)
              /\ \/ req'[r].pc = "failed"
                 \/ /\ req'[r].pc = "load_for_digest" /\ req'[r].inventory = package.copies
                    /\ SameLoaded(r) /\ SameGen(r)
         /\ ReadDigest(r) =>
              /\ Moves(r, "manifest") /\ req'[r].digest = contents[req[r].loaded.file]
              /\ SameLoaded(r) /\ SameGen(r) /\ SameInventory(r)
         /\ WriteManifest(r) => Kept(r) /\ req'[r].pc \in {"done", "failed"}
         /\ Fail(r) => Moves(r, "failed")
<1> DEFINE q == req[r]
<1>a. Proper(q) /\ LocalTyped(q) /\ DOMAIN req = Requests
  BY DEF StateInv, RequestsProper, Proper
<1>b. q.pc = "write" => q.k \in 1..Len(Files)
  BY <1>a DEF Proper, LocalHeld
<1>c. q.pc = "copy" => q.k \in 1..(Len(Files) + 1)
  BY <1>a DEF Proper, LocalHeld
<1>d. Len(Files) \in Nat
  BY ProjectAssumption
<1> USE DEF At, Goto, Kept, Others, Moves, Same, SameLoaded, SameGen, SameInventory, SameDigest,
        LocalTyped
<1>1. ASSUME Load(r)
      PROVE  /\ Kept(r) /\ req'[r].loaded = project /\ req'[r].k = req[r].k
             /\ SameGen(r) /\ SameInventory(r) /\ SameDigest(r)
             /\ req[r].op = "import" => req'[r].pc = "write_source"
             /\ req[r].op = "configure" => req'[r].pc = "save"
             /\ req[r].op = "overrides" => req'[r].pc = "write_overrides"
             /\ req[r].op \in Building => req'[r].pc = "read_source"
  BY <1>1, <1>a DEF Load, Building
<1>2. WriteSource(r) => Moves(r, "save") /\ Same(r)
  BY <1>a DEF WriteSource
<1>3. WriteOverrides(r) => Moves(r, "done")
  BY <1>a DEF WriteOverrides, Ends
<1>4. ReadSource(r) => /\ Moves(r, "read_overrides") /\ SameLoaded(r)
                       /\ req'[r].gen.source = contents[req[r].loaded.file]
  BY <1>a DEF ReadSource
<1>5. ASSUME ReadOverrides(r)
      PROVE  /\ Moves(r, "write") /\ SameLoaded(r) /\ req'[r].k = 1
             /\ req'[r].gen.source = req[r].gen.source
  <2>1. q.gen \in Generations /\ q.k = 1
    BY <1>5, <1>a DEF ReadOverrides, Proper, LocalHeld
  <2> QED
    BY <1>5, <1>a, <2>1 DEF ReadOverrides, Generations
<1>6. ASSUME WriteArtifact(r)
      PROVE  /\ Kept(r) /\ Same(r)
             /\ \/ req[r].k < Len(Files) /\ req'[r].pc = "write" /\ req'[r].k = req[r].k + 1
                \/ req[r].k = Len(Files) /\ req'[r].pc = "save"
  <2>1. CASE q.k < Len(Files)
    BY <1>6, <1>a, <1>b, <2>1 DEF WriteArtifact
  <2>2. CASE ~(q.k < Len(Files))
    BY <1>6, <1>a, <1>b, <1>d, <2>2 DEF WriteArtifact
  <2> QED
    BY <2>1, <2>2
<1>7. ASSUME Save(r)
      PROVE  /\ Kept(r)
             /\ \/ req[r].op = "deploy" /\ req'[r].pc = "load_again" /\ Same(r)
                \/ req[r].op # "deploy" /\ req'[r].pc = "done"
  <2>1. CASE q.op = "deploy"
    BY <1>7, <1>a, <2>1 DEF Save
  <2>2. CASE q.op # "deploy"
    BY <1>7, <1>a, <2>2 DEF Save, Ends
  <2> QED
    BY <2>1, <2>2
<1>8. LoadAgain(r) =>
        /\ Kept(r) /\ req'[r].loaded = project
        /\ SameGen(r) /\ SameInventory(r) /\ SameDigest(r)
        /\ \/ req[r].pc = "load_again" /\ req'[r].pc = "remove"
           \/ req[r].pc = "load_for_digest" /\ req'[r].pc = "digest"
  BY <1>a DEF LoadAgain
<1>9. RemovePackage(r) => Moves(r, "make") /\ Same(r)
  BY <1>a DEF RemovePackage
<1>10. MakePackage(r) => Moves(r, "copy") /\ Same(r) /\ req'[r].k = req[r].k
  BY <1>a DEF MakePackage
<1>11. ASSUME CopyArtifact(r)
       PROVE  /\ Kept(r)
              /\ \/ ~package.exists /\ req'[r].pc = "failed"
                 \/ /\ package.exists /\ Same(r)
                    /\ \/ req[r].k = Len(Files) + 1 /\ req'[r].pc = "inventory"
                       \/ req[r].k <= Len(Files) /\ req'[r].pc = "copy" /\ req'[r].k = req[r].k + 1
  <2>1. CASE ~package.exists
    BY <1>11, <1>a, <2>1 DEF CopyArtifact, Fails
  <2>2. CASE package.exists /\ q.k > Len(Files)
    BY <1>11, <1>a, <1>c, <1>d, <2>2 DEF CopyArtifact
  <2>3. CASE package.exists /\ ~(q.k > Len(Files))
    BY <1>11, <1>a, <1>c, <1>d, <2>3 DEF CopyArtifact
  <2> QED
    BY <2>1, <2>2, <2>3
<1>12. Inventory(r) =>
         /\ Kept(r)
         /\ \/ req'[r].pc = "failed"
            \/ /\ req'[r].pc = "load_for_digest" /\ req'[r].inventory = package.copies
               /\ SameLoaded(r) /\ SameGen(r)
  BY <1>a DEF Inventory, Fails
<1>13. ReadDigest(r) =>
         /\ Moves(r, "manifest") /\ req'[r].digest = contents[req[r].loaded.file]
         /\ SameLoaded(r) /\ SameGen(r) /\ SameInventory(r)
  BY <1>a DEF ReadDigest
<1>14. WriteManifest(r) => Kept(r) /\ req'[r].pc \in {"done", "failed"}
  BY <1>a DEF WriteManifest, Ends, Fails
<1>15. Fail(r) => Moves(r, "failed")
  BY <1>a DEF Fail, Fails
<1> HIDE DEF At, Goto, Kept, Others, Moves, Same, SameLoaded, SameGen, SameInventory, SameDigest,
        LocalTyped
<1> QED
  BY <1>1, <1>2, <1>3, <1>4, <1>5, <1>6, <1>7, <1>8, <1>9, <1>10, <1>11, <1>12, <1>13, <1>14,
     <1>15

(* A request that begins meets those under way and changes nothing else.   *)
LEMMA BeginEffects ==
  ASSUME StateInv, NEW r \in Requests, NEW op \in Editing \cup Building \cup {"overrides"},
         NEW arg \in Arguments(op), Begin(r, op, arg)
  PROVE  /\ req[r].pc = "idle" /\ req[r].op = "none" /\ r \notin Running
         /\ req'[r].pc = "load" /\ req'[r].op = op /\ req'[r].arg = arg /\ req'[r].met = Running
         /\ req'[r].k = 1
         /\ \A s \in Requests \ {r} :
              /\ req'[s].op = req[s].op /\ req'[s].arg = req[s].arg /\ req'[s].pc = req[s].pc
              /\ req'[s].k = req[s].k /\ Same(s)
              /\ req'[s].met = IF s \in Running THEN req[s].met \cup {r} ELSE req[s].met
<1>a. \A s \in Requests : LocalTyped(req[s])
  BY DEF StateInv, RequestsProper, Proper
<1>1. req[r].pc = "idle" /\ req[r].op = "none" /\ req[r].k = 1 /\ r \notin Running
  BY DEF StateInv, RequestsProper, Proper, LocalStage, LocalHeld, Begin, At, Running, Ended
<1>2. /\ req'[r].pc = "load" /\ req'[r].op = op /\ req'[r].arg = arg /\ req'[r].met = Running
      /\ req'[r].k = 1
  <2>1. req'[r] = [req[r] EXCEPT !.op = op, !.arg = arg, !.pc = "load", !.met = Running]
    BY DEF Begin
  <2> HIDE DEF Running
  <2> QED
    BY <1>a, <1>1, <2>1 DEF LocalTyped
<1>3. ASSUME NEW s \in Requests \ {r}
      PROVE  /\ req'[s].op = req[s].op /\ req'[s].arg = req[s].arg /\ req'[s].pc = req[s].pc
             /\ req'[s].k = req[s].k /\ Same(s)
             /\ req'[s].met = IF s \in Running THEN req[s].met \cup {r} ELSE req[s].met
  BY <1>a DEF Begin, LocalTyped, Same, SameLoaded, SameGen, SameInventory, SameDigest
<1> QED
  BY <1>1, <1>2, <1>3

(* To a request under way, one that begins is another it has met. *)
LEMMA BeginOthers ==
  ASSUME StateInv, NEW r \in Requests, NEW op \in Editing \cup Building \cup {"overrides"},
         NEW arg \in Arguments(op), Begin(r, op, arg), NEW s \in Requests, s # r
  PROVE  /\ req'[s].op = req[s].op /\ req'[s].arg = req[s].arg /\ req'[s].pc = req[s].pc
         /\ req'[s].k = req[s].k /\ Same(s)
         /\ req'[s].met = IF s \in Running THEN req[s].met \cup {r} ELSE req[s].met
<1>1. s \in Requests \ {r}
  OBVIOUS
<1> QED
  BY <1>1, BeginEffects

(* What a request is asked and whom it met is kept by every step. *)
LEMMA Grows ==
  ASSUME StateInv, [Next]_vars, NEW r \in Requests
  PROVE  /\ req[r].met \subseteq req'[r].met
         /\ req[r].op # "none" => req'[r].op = req[r].op /\ req'[r].arg = req[r].arg
<1>1. CASE UNCHANGED vars
  BY <1>1 DEF vars
<1>2. ASSUME NEW s \in Requests, Step(s) \/ Fail(s)
      PROVE  Kept(s)
  BY <1>2, Effects DEF Step, Moves
<1>3. ASSUME NEW s \in Requests, Kept(s)
      PROVE  /\ req[r].met \subseteq req'[r].met
             /\ req'[r].op = req[r].op /\ req'[r].arg = req[r].arg
  BY <1>3 DEF Kept, Others
<1>4. ASSUME NEW s \in Requests, NEW op \in Editing \cup Building \cup {"overrides"},
             NEW arg \in Arguments(op), Begin(s, op, arg)
      PROVE  /\ req[r].met \subseteq req'[r].met
             /\ req[r].op # "none" => req'[r].op = req[r].op /\ req'[r].arg = req[r].arg
  <2>1. CASE r = s
    <3>1. req[r].op = "none" /\ req[r].pc = "idle" /\ req'[r].met = Running
      BY <1>4, <2>1, BeginEffects
    <3>2. req[r].met = {}
      BY <3>1 DEF StateInv, RequestsProper, Proper, LocalStage
    <3> QED
      BY <3>1, <3>2
  <2>2. CASE r # s
    <3>1. r \in Requests \ {s}
      BY <2>2
    <3>2. /\ req'[r].op = req[r].op /\ req'[r].arg = req[r].arg
          /\ req'[r].met = IF r \in Running THEN req[r].met \cup {s} ELSE req[r].met
      BY <1>4, <3>1, BeginEffects
    <3> QED
      BY <3>2
  <2> QED
    BY <2>1, <2>2
<1> QED
  BY <1>1, <1>2, <1>3, <1>4 DEF Next
(* Who has met whom, and who saves, is never undone. *)
LEMMA MetGrows ==
  ASSUME StateInv, [Next]_vars, NEW r \in Requests, NEW ops, "none" \notin ops
  PROVE  /\ r \in Of(ops) => r \in Of(ops)'
         /\ Met(r, ops) => Met(r, ops)'
<1>1. \A s \in Requests : s \in Of(ops) => s \in Of(ops)'
  BY Grows DEF Of
<1>2. ASSUME Met(r, ops) PROVE Met(r, ops)'
  <2>1. PICK s \in Requests : s \in req[r].met /\ s \in Of(ops)
    BY <1>2 DEF Met, Of
  <2>2. s \in req'[r].met
    BY <2>1, Grows
  <2>3. s \in Of(ops)'
    BY <1>1, <2>1
  <2> QED
    BY <2>2, <2>3 DEF Met
<1> QED
  BY <1>1, <1>2

(* Requests that overlapped have overlapped for good. *)
LEMMA OverlapStays ==
  ASSUME StateInv, [Next]_vars, Overlapped
  PROVE  Overlapped'
<1>1. PICK r \in Of(Building) : Met(r, Building \cup Editing)
  BY DEF Overlapped
<1>2. r \in Requests
  BY DEF Of
<1>3. r \in Of(Building)' /\ Met(r, Building \cup Editing)'
  BY <1>1, <1>2, MetGrows DEF Building, Editing
<1> QED
  BY <1>3 DEF Overlapped

(* And so does what excuses a deployment. *)
LEMMA ExcuseStays ==
  ASSUME StateInv, [Next]_vars, NEW d \in Requests, Excused(d)
  PROVE  Excused(d)'
<1>1. CASE Met(d, {"import"} \cup Building)
  BY <1>1, MetGrows DEF Excused, Building
<1>2. ASSUME NEW s \in req[d].met \cap Of({"configure"}),
             (req[s].met \ {d}) \cap Of(Editing \cup Building) # {}
      PROVE  Excused(d)'
  <2>1. s \in Requests
    BY DEF Of
  <2>2. PICK t \in Requests : t \in req[s].met \ {d} /\ t \in Of(Editing \cup Building)
    BY <1>2 DEF Of
  <2>3. s \in req'[d].met /\ s \in Of({"configure"})'
    BY <2>1, Grows, MetGrows
  <2>4. t \in req'[s].met \ {d} /\ t \in Of(Editing \cup Building)'
    BY <2>1, <2>2, Grows, MetGrows DEF Editing, Building
  <2> QED
    BY <2>3, <2>4 DEF Excused
<1> QED
  BY <1>1, <1>2 DEF Excused

(* Requests meet when the later of them begins. *)
LEMMA MetStep ==
  ASSUME StateInv, MetInv, [Next]_vars
  PROVE  MetInv'
<1>1. CASE UNCHANGED vars
  BY <1>1 DEF vars, MetInv, Running
<1>2. ASSUME NEW r \in Requests, Step(r) \/ Fail(r)
      PROVE  MetInv'
  <2>1. Kept(r)
    BY <1>2, Effects DEF Step, Moves
  <2>2. req[r].pc \notin Ended
    BY <1>2 DEF Step, Load, WriteSource, WriteOverrides, ReadSource, ReadOverrides, WriteArtifact,
       Save, LoadAgain, RemovePackage, MakePackage, CopyArtifact, Inventory, ReadDigest,
       WriteManifest, Fail, Running, At, Ended
  <2>3. Running' \subseteq Running
    BY <2>1, <2>2 DEF Running, Kept, Others
  <2> QED
    BY <2>1, <2>3 DEF MetInv, Kept, Others, Running
<1>3. ASSUME NEW r \in Requests, NEW op \in Editing \cup Building \cup {"overrides"},
             NEW arg \in Arguments(op), Begin(r, op, arg)
      PROVE  MetInv'
  <2>1. /\ r \notin Running /\ req'[r].met = Running
        /\ \A s \in Requests \ {r} :
             /\ req'[s].pc = req[s].pc
             /\ req'[s].met = IF s \in Running THEN req[s].met \cup {r} ELSE req[s].met
    BY <1>3, BeginEffects
  <2>2. \A s \in Requests \ {r} : s \in Running' <=> s \in Running
    BY <2>1 DEF Running
  <2>3. ASSUME NEW s \in Running', NEW t \in Running', s # t
        PROVE  t \in req'[s].met
    <3>1. s \in Requests /\ t \in Requests
      BY DEF Running
    <3>2. CASE s = r
      BY <2>1, <2>2, <2>3, <3>1, <3>2
    <3>3. CASE s # r
      <4>1. s \in Running /\ req'[s].met = req[s].met \cup {r}
        BY <2>1, <2>2, <3>1, <3>3
      <4> QED
        BY <2>2, <2>3, <3>1, <4>1 DEF MetInv
    <3> QED
      BY <3>2, <3>3
  <2> QED
    BY <2>3 DEF MetInv
<1> QED
  BY <1>1, <1>2, <1>3 DEF Next

(* A step that does not save keeps the descriptor; whoever holds a copy    *)
(* afterwards held it before or has just read the descriptor.              *)
LEMMA HoldStep ==
  ASSUME StateInv, [Next]_vars, \A r \in Requests : ~Save(r)
  PROVE  /\ project' = project /\ editor' = editor
         /\ \A s \in Requests : req'[s].pc \in Holding =>
              /\ req'[s].op = req[s].op
              /\ req'[s].loaded = project \/ (req[s].pc \in Holding /\ SameLoaded(s))
<1>1. CASE UNCHANGED vars
  BY <1>1 DEF vars, files, Holding, Reading, SameLoaded
<1>2. ASSUME NEW r \in Requests, Step(r) \/ Fail(r)
      PROVE  /\ project' = project /\ editor' = editor
             /\ \A s \in Requests : req'[s].pc \in Holding =>
                  /\ req'[s].op = req[s].op
                  /\ req'[s].loaded = project \/ (req[s].pc \in Holding /\ SameLoaded(s))
  <2>1. project' = project /\ editor' = editor
    BY <1>2 DEF Step, Load, WriteSource, WriteOverrides, ReadSource, ReadOverrides, WriteArtifact,
       LoadAgain, RemovePackage, MakePackage, CopyArtifact, Inventory, ReadDigest,
       WriteManifest, Fail, files
  <2>2. Kept(r)
    BY <1>2, Effects DEF Step, Moves
  <2>3. req'[r].pc \in Holding =>
          req'[r].loaded = project \/ (req[r].pc \in Holding /\ SameLoaded(r))
    <3>1. CASE Load(r)
      <4>1. req'[r].loaded = project
        BY <3>1, Effects
      <4> QED
        BY <4>1
    <3>4. CASE LoadAgain(r)
      <4>1. req'[r].loaded = project
        BY <3>4, Effects
      <4> QED
        BY <4>1
    <3>2. CASE WriteSource(r) \/ ReadSource(r) \/ ReadOverrides(r) \/ WriteArtifact(r)
      <4>1. req[r].pc \in Holding
        BY <3>2 DEF WriteSource, ReadSource, ReadOverrides, WriteArtifact, At, Holding, Reading
      <4> QED
        BY <3>2, <4>1, Effects DEF Same
    <3>3. CASE \/ WriteOverrides(r) \/ RemovePackage(r) \/ MakePackage(r) \/ CopyArtifact(r)
               \/ Inventory(r) \/ ReadDigest(r) \/ WriteManifest(r) \/ Fail(r)
      <4>1. req'[r].pc \notin Holding
        BY <3>3, Effects DEF Moves, Holding, Reading
      <4> QED
        BY <4>1
    <3> QED
      BY <1>2, <3>1, <3>2, <3>3, <3>4 DEF Step
  <2> QED
    BY <2>1, <2>2, <2>3 DEF Kept, Others, SameLoaded
<1>4. ASSUME NEW r \in Requests, NEW op \in Editing \cup Building \cup {"overrides"},
             NEW arg \in Arguments(op), Begin(r, op, arg)
      PROVE  /\ project' = project /\ editor' = editor
             /\ \A s \in Requests : req'[s].pc \in Holding =>
                  req'[s].op = req[s].op /\ req[s].pc \in Holding /\ SameLoaded(s)
  <2>1. /\ req'[r].pc = "load"
        /\ \A s \in Requests \ {r} :
             req'[s].op = req[s].op /\ req'[s].pc = req[s].pc /\ Same(s)
    <3>1. req'[r].pc = "load"
      BY <1>4, BeginEffects
    <3>2. ASSUME NEW s \in Requests \ {r}
          PROVE  req'[s].op = req[s].op /\ req'[s].pc = req[s].pc /\ Same(s)
      BY <1>4, BeginOthers
    <3> QED
      BY <3>1, <3>2
  <2>2. project' = project /\ editor' = editor
    BY <1>4 DEF Begin, files
  <2>3. ASSUME NEW s \in Requests, req'[s].pc \in Holding
        PROVE  req'[s].op = req[s].op /\ req[s].pc \in Holding /\ SameLoaded(s)
    <3>1. s \in Requests \ {r}
      BY <2>1, <2>3 DEF Holding, Reading
    <3> QED
      BY <2>1, <2>3, <3>1 DEF Same
  <2> QED
    BY <2>2, <2>3
<1> QED
  BY <1>1, <1>2, <1>4 DEF Next
(* Whoever holds a copy of the descriptor while another saves has met it.  *)
LEMMA SaveStep ==
  ASSUME StateInv, MetInv, NEW r \in Requests, Save(r)
  PROVE  /\ project' = Saved(r) /\ req[r].op \in Editing \cup Building
         /\ req[r].pc = "save" /\ req[r].loaded \in Projects /\ req'[r].pc \notin Holding
         /\ Kept(r)
         /\ \A s \in Requests \ {r} : req[s].pc \in Holding \cup Deploying =>
              s \in req[r].met /\ r \in req[s].met
<1>1. Proper(req[r]) /\ req[r].pc = "save"
  BY DEF StateInv, RequestsProper, Save, At
<1>2. req[r].op \in Editing \cup Building /\ req[r].loaded \in Projects
  BY <1>1 DEF Proper, LocalStage, LocalHeld, Holding
<1>3. Kept(r) /\ req'[r].pc \in {"load_again", "done"}
  BY Effects
<1>4. req'[r].pc \notin Holding
  BY <1>3 DEF Holding, Reading
<1>5. r \in Running /\ \A s \in Requests : req[s].pc \in Holding \cup Deploying => s \in Running
  BY <1>1 DEF Running, Ended, Holding, Reading, Deploying, Packing
<1> QED
  BY <1>1, <1>2, <1>3, <1>4, <1>5 DEF MetInv, Save

-----------------------------------------------------------------------------
(* Edits.                                                                  *)

(* The file that an import named is overwritten only by who met it. *)
LEMMA FileStep ==
  ASSUME StateInv, MetInv, FileInv, [Next]_vars
  PROVE  FileInv'
<1> DEFINE W == Overwriting("import")
<1>a. "none" \notin W /\ W = {"configure", "build", "deploy"}
  BY DEF Overwriting, Editing, Building
<1>1. CASE \A r \in Requests : ~Save(r)
  <2> SUFFICES ASSUME editor.file # Nobody
               PROVE  FileInv'
    BY <1>1, HoldStep DEF FileInv
  <2>1. PICK e \in Requests : e = editor.file /\ req[e].op = "import"
    BY DEF FileInv
  <2>2. /\ editor'.file = e /\ project' = project
        /\ req'[e].op = "import" /\ req'[e].arg = req[e].arg
    BY <1>1, <2>1, HoldStep, Grows
  <2>3. CASE Met(e, W)
    <3>1. Met(e, W)'
      BY <1>a, <2>1, <2>3, MetGrows
    <3> QED
      BY <2>1, <2>2, <3>1 DEF FileInv
  <2>4. CASE /\ project.file = req[e].arg.file
             /\ \A s \in Of(W) : req[s].pc \in Holding => req[s].loaded.file = req[e].arg.file
    <3>1. ASSUME NEW s \in Of(W)', req'[s].pc \in Holding
          PROVE  req'[s].loaded.file = req'[e].arg.file
      <4>1. s \in Requests /\ req'[s].op \in W
        BY DEF Of
      <4>2. /\ req'[s].op = req[s].op
            /\ req'[s].loaded = project \/ (req[s].pc \in Holding /\ SameLoaded(s))
        BY <1>1, <3>1, <4>1, HoldStep
      <4>3. s \in Of(W)
        BY <4>1, <4>2 DEF Of
      <4> QED
        BY <2>2, <2>4, <4>2, <4>3 DEF SameLoaded
    <3> QED
      BY <2>1, <2>2, <2>4, <3>1 DEF FileInv
  <2> QED
    BY <2>1, <2>3, <2>4 DEF FileInv
<1>2. ASSUME NEW r \in Requests, Save(r)
      PROVE  FileInv'
  <2>1. /\ project' = Saved(r) /\ req[r].op \in Editing \cup Building
        /\ req[r].pc = "save" /\ req[r].loaded \in Projects /\ req'[r].pc \notin Holding
        /\ Kept(r)
        /\ \A s \in Requests \ {r} : req[s].pc \in Holding \cup Deploying =>
             s \in req[r].met /\ r \in req[s].met
    BY <1>2, SaveStep
  <2>2. \A s \in Requests : req'[s].op = req[s].op /\ req'[s].arg = req[s].arg
    BY <2>1 DEF Kept, Others
  <2>3. CASE req[r].op = "import"
    <3>1. editor'.file = r
      BY <1>2, <2>3 DEF Save
    <3>2. project'.file = req[r].arg.file
      BY <2>1, <2>3 DEF Saved, Projects
    <3>3. CASE \E s \in Of(W) : req[s].pc \in Holding
      <4>1. PICK s \in Of(W) : req[s].pc \in Holding
        BY <3>3
      <4>2. s \in Requests \ {r}
        BY <1>a, <2>3, <4>1 DEF Of
      <4>3. s \in req[r].met
        BY <2>1, <4>1, <4>2
      <4>4. Met(r, W)'
        <5>1. s \in req'[r].met
          BY <2>1, <4>3 DEF Kept
        <5>2. s \in Of(W)'
          BY <2>2, <4>1 DEF Of
        <5> QED
          BY <5>1, <5>2 DEF Met
      <4> QED
        BY <2>2, <2>3, <3>1, <4>4 DEF FileInv
    <3>4. CASE \A s \in Of(W) : req[s].pc \notin Holding
      <4>1. \A s \in Of(W)' : req'[s].pc \notin Holding
        BY <2>1, <2>2, <3>4 DEF Of, Kept, Others
      <4> QED
        BY <2>2, <2>3, <3>1, <3>2, <4>1 DEF FileInv
    <3> QED
      BY <3>3, <3>4
  <2>4. CASE req[r].op # "import"
    <3> SUFFICES ASSUME editor'.file # Nobody
                 PROVE  FileInv'
      BY DEF FileInv
    <3>a. editor'.file = editor.file
      BY <1>2, <2>4 DEF Save
    <3>2. PICK e \in Requests : e = editor.file /\ req[e].op = "import"
      BY <3>a DEF FileInv
    <3>1. editor'.file = e
      BY <3>a, <3>2
    <3>3. CASE Met(e, W)
      <4>1. Met(e, W)'
        BY <1>2, <1>a, <3>2, <3>3, MetGrows
      <4> QED
        BY <2>2, <3>1, <3>2, <4>1 DEF FileInv
    <3>4. CASE /\ project.file = req[e].arg.file
               /\ \A s \in Of(W) : req[s].pc \in Holding => req[s].loaded.file = req[e].arg.file
      <4>1. r \in Of(W)
        BY <1>a, <2>1, <2>4 DEF Of, Editing, Building
      <4>2. req[r].loaded.file = req[e].arg.file
        BY <2>1, <3>4, <4>1 DEF Holding
      <4>3. project'.file = req[e].arg.file
        BY <2>1, <2>4, <4>2 DEF Saved, Projects
      <4>4. ASSUME NEW s \in Of(W)', req'[s].pc \in Holding
            PROVE  req'[s].loaded.file = req[e].arg.file
        <5>1. s \in Of(W) /\ s \in Requests /\ s # r
          BY <2>1, <2>2, <4>4 DEF Of
        <5>2. req'[s] = req[s]
          BY <2>1, <5>1 DEF Kept, Others
        <5> QED
          BY <3>4, <4>4, <5>1, <5>2
      <4> QED
        BY <2>2, <3>1, <3>2, <4>3, <4>4 DEF FileInv
    <3> QED
      BY <3>1, <3>2, <3>3, <3>4 DEF FileInv
  <2> QED
    BY <2>3, <2>4
<1> QED
  BY <1>1, <1>2
(* The mode that a configuration set is overwritten only by who met it. *)
LEMMA ModeStep ==
  ASSUME StateInv, MetInv, ModeInv, [Next]_vars
  PROVE  ModeInv'
<1> DEFINE W == Overwriting("configure")
<1>a. "none" \notin W /\ W = {"import", "build", "deploy"}
  BY DEF Overwriting, Editing, Building
<1>1. CASE \A r \in Requests : ~Save(r)
  <2> SUFFICES ASSUME editor.mode # Nobody
               PROVE  ModeInv'
    BY <1>1, HoldStep DEF ModeInv
  <2>1. PICK e \in Requests : e = editor.mode /\ req[e].op = "configure"
    BY DEF ModeInv
  <2>2. /\ editor'.mode = e /\ project' = project
        /\ req'[e].op = "configure" /\ req'[e].arg = req[e].arg
    BY <1>1, <2>1, HoldStep, Grows
  <2>3. CASE Met(e, W)
    <3>1. Met(e, W)'
      BY <1>a, <2>1, <2>3, MetGrows
    <3> QED
      BY <2>1, <2>2, <3>1 DEF ModeInv
  <2>4. CASE /\ project.mode = req[e].arg
             /\ \A s \in Of(W) : req[s].pc \in Holding => req[s].loaded.mode = req[e].arg
    <3>1. ASSUME NEW s \in Of(W)', req'[s].pc \in Holding
          PROVE  req'[s].loaded.mode = req'[e].arg
      <4>1. s \in Requests /\ req'[s].op \in W
        BY DEF Of
      <4>2. /\ req'[s].op = req[s].op
            /\ req'[s].loaded = project \/ (req[s].pc \in Holding /\ SameLoaded(s))
        BY <1>1, <3>1, <4>1, HoldStep
      <4>3. s \in Of(W)
        BY <4>1, <4>2 DEF Of
      <4> QED
        BY <2>2, <2>4, <4>2, <4>3 DEF SameLoaded
    <3> QED
      BY <2>1, <2>2, <2>4, <3>1 DEF ModeInv
  <2> QED
    BY <2>1, <2>3, <2>4 DEF ModeInv
<1>2. ASSUME NEW r \in Requests, Save(r)
      PROVE  ModeInv'
  <2>1. /\ project' = Saved(r) /\ req[r].op \in Editing \cup Building
        /\ req[r].pc = "save" /\ req[r].loaded \in Projects /\ req'[r].pc \notin Holding
        /\ Kept(r)
        /\ \A s \in Requests \ {r} : req[s].pc \in Holding \cup Deploying =>
             s \in req[r].met /\ r \in req[s].met
    BY <1>2, SaveStep
  <2>2. \A s \in Requests : req'[s].op = req[s].op /\ req'[s].arg = req[s].arg
    BY <2>1 DEF Kept, Others
  <2>3. CASE req[r].op = "configure"
    <3>1. editor'.mode = r
      BY <1>2, <2>3 DEF Save
    <3>2. project'.mode = req[r].arg
      BY <2>1, <2>3 DEF Saved, Projects
    <3>3. CASE \E s \in Of(W) : req[s].pc \in Holding
      <4>1. PICK s \in Of(W) : req[s].pc \in Holding
        BY <3>3
      <4>2. s \in Requests \ {r}
        BY <1>a, <2>3, <4>1 DEF Of
      <4>3. s \in req[r].met
        BY <2>1, <4>1, <4>2
      <4>4. Met(r, W)'
        <5>1. s \in req'[r].met
          BY <2>1, <4>3 DEF Kept
        <5>2. s \in Of(W)'
          BY <2>2, <4>1 DEF Of
        <5> QED
          BY <5>1, <5>2 DEF Met
      <4> QED
        BY <2>2, <2>3, <3>1, <4>4 DEF ModeInv
    <3>4. CASE \A s \in Of(W) : req[s].pc \notin Holding
      <4>1. \A s \in Of(W)' : req'[s].pc \notin Holding
        BY <2>1, <2>2, <3>4 DEF Of, Kept, Others
      <4> QED
        BY <2>2, <2>3, <3>1, <3>2, <4>1 DEF ModeInv
    <3> QED
      BY <3>3, <3>4
  <2>4. CASE req[r].op # "configure"
    <3> SUFFICES ASSUME editor'.mode # Nobody
                 PROVE  ModeInv'
      BY DEF ModeInv
    <3>a. editor'.mode = editor.mode
      BY <1>2, <2>4 DEF Save
    <3>2. PICK e \in Requests : e = editor.mode /\ req[e].op = "configure"
      BY <3>a DEF ModeInv
    <3>1. editor'.mode = e
      BY <3>a, <3>2
    <3>3. CASE Met(e, W)
      <4>1. Met(e, W)'
        BY <1>2, <1>a, <3>2, <3>3, MetGrows
      <4> QED
        BY <2>2, <3>1, <3>2, <4>1 DEF ModeInv
    <3>4. CASE /\ project.mode = req[e].arg
               /\ \A s \in Of(W) : req[s].pc \in Holding => req[s].loaded.mode = req[e].arg
      <4>1. r \in Of(W)
        BY <1>a, <2>1, <2>4 DEF Of, Editing, Building
      <4>2. req[r].loaded.mode = req[e].arg
        BY <2>1, <3>4, <4>1 DEF Holding
      <4>3. project'.mode = req[e].arg
        BY <2>1, <2>4, <4>2 DEF Saved, Projects
      <4>4. ASSUME NEW s \in Of(W)', req'[s].pc \in Holding
            PROVE  req'[s].loaded.mode = req[e].arg
        <5>1. s \in Of(W) /\ s \in Requests /\ s # r
          BY <2>1, <2>2, <4>4 DEF Of
        <5>2. req'[s] = req[s]
          BY <2>1, <5>1 DEF Kept, Others
        <5> QED
          BY <3>4, <4>4, <5>1, <5>2
      <4> QED
        BY <2>2, <3>1, <3>2, <4>3, <4>4 DEF ModeInv
    <3> QED
      BY <3>1, <3>2, <3>3, <3>4 DEF ModeInv
  <2> QED
    BY <2>3, <2>4
<1> QED
  BY <1>1, <1>2
-----------------------------------------------------------------------------
(* Generations.                                                            *)

(* Only a build that is writing changes the artifacts. *)
LEMMA GeneratedStep ==
  ASSUME [Next]_vars, \A r \in Requests : ~WriteArtifact(r)
  PROVE  generated' = generated
<1>1. CASE UNCHANGED vars
  BY <1>1 DEF vars, files
<1>2. ASSUME NEW r \in Requests, Step(r) \/ Fail(r)
      PROVE  generated' = generated
  BY <1>2 DEF Step, Load, WriteSource, WriteOverrides, ReadSource, ReadOverrides, Save,
       LoadAgain, RemovePackage, MakePackage, CopyArtifact, Inventory, ReadDigest,
       WriteManifest, Fail, files
<1>3. ASSUME NEW r \in Requests, NEW op, NEW arg, Begin(r, op, arg)
      PROVE  generated' = generated
  BY <1>3 DEF Begin, files
<1> QED
  BY <1>1, <1>2, <1>3 DEF Next

(* Where a request is that is writing or about to save, or failed.         *)
LEMMA WriterStep ==
  ASSUME StateInv, [Next]_vars, NEW b \in Requests, ~WriteArtifact(b), ~Save(b)
  PROVE  /\ req'[b].op \in Building /\ req'[b].pc \in {"write", "save"} =>
              \/ req[b].pc = req'[b].pc /\ SameGen(b) /\ req'[b].k = req[b].k
              \/ req'[b].pc = "write" /\ req'[b].k = 1
         /\ req[b].pc \in {"write", "save", "failed"} =>
              req'[b].pc \in {req[b].pc, "failed"}
<1>a. Proper(req[b])
  BY DEF StateInv, RequestsProper
<1>1. CASE UNCHANGED vars
  BY <1>1 DEF vars, SameGen
<1>2. ASSUME Step(b) \/ Fail(b)
      PROVE  /\ req'[b].op \in Building /\ req'[b].pc \in {"write", "save"} =>
                  req'[b].pc = "write" /\ req'[b].k = 1
             /\ req[b].pc \in {"write", "save", "failed"} =>
                  req'[b].pc \in {req[b].pc, "failed"}
  <2>1. CASE Load(b)
    <3>1. req[b].pc = "load" /\ req'[b].op = req[b].op
      BY <2>1, Effects DEF Load, At, Kept
    <3>2. req[b].op \in Building => req'[b].pc = "read_source"
      BY <2>1, Effects
    <3> QED
      BY <3>1, <3>2
  <2>2. CASE WriteSource(b)
    <3>1. req[b].pc = "write_source" /\ req'[b].op = req[b].op
      BY <2>2, Effects DEF WriteSource, At, Kept, Moves
    <3>2. req[b].op = "import"
      BY <1>a, <3>1 DEF Proper, LocalStage
    <3> QED
      BY <3>1, <3>2 DEF Building
  <2>3. CASE ReadOverrides(b)
    <3>1. req[b].pc = "read_overrides" /\ req'[b].pc = "write" /\ req'[b].k = 1
      BY <2>3, Effects DEF ReadOverrides, At, Moves
    <3> QED
      BY <3>1
  <2>4. CASE \/ WriteOverrides(b) \/ ReadSource(b) \/ RemovePackage(b) \/ MakePackage(b)
             \/ ReadDigest(b)
    <3>1. req'[b].pc \in {"done", "read_overrides", "make", "copy", "manifest"}
      BY <2>4, Effects DEF Moves
    <3>2. req[b].pc \notin {"write", "save", "failed"}
      BY <2>4 DEF WriteOverrides, ReadSource, RemovePackage, MakePackage, ReadDigest, At
    <3> QED
      BY <3>1, <3>2
  <2>5. CASE LoadAgain(b) \/ CopyArtifact(b) \/ Inventory(b) \/ WriteManifest(b)
    <3>1. req'[b].pc \in {"remove", "digest", "failed", "inventory", "copy", "load_for_digest",
                          "done"}
      BY <2>5, Effects
    <3>2. req[b].pc \notin {"write", "save", "failed"}
      BY <2>5 DEF LoadAgain, CopyArtifact, Inventory, WriteManifest, At
    <3> QED
      BY <3>1, <3>2
  <2>6. CASE Fail(b)
    <3>1. req'[b].pc = "failed"
      BY <2>6, Effects DEF Moves
    <3> QED
      BY <3>1
  <2> QED
    BY <1>2, <2>1, <2>2, <2>3, <2>4, <2>5, <2>6 DEF Step
<1>3. ASSUME NEW r \in Requests, r # b, Step(r) \/ Fail(r)
      PROVE  req'[b] = req[b]
  BY <1>3, Effects DEF Step, Moves, Kept, Others
<1>4. ASSUME NEW op \in Editing \cup Building \cup {"overrides"},
             NEW arg \in Arguments(op), Begin(b, op, arg)
      PROVE  req'[b].pc = "load" /\ req[b].pc = "idle"
  BY <1>4, BeginEffects
<1>5. ASSUME NEW r \in Requests, r # b, NEW op \in Editing \cup Building \cup {"overrides"},
             NEW arg \in Arguments(op), Begin(r, op, arg)
      PROVE  req'[b].pc = req[b].pc /\ SameGen(b) /\ req'[b].k = req[b].k
  BY <1>5, BeginOthers DEF Same
<1>6. CASE \E op \in Editing \cup Building \cup {"overrides"} :
             \E arg \in Arguments(op) : Begin(b, op, arg)
  BY <1>4, <1>6
<1>7. CASE \E r \in Requests : r # b /\ \E op \in Editing \cup Building \cup {"overrides"} :
             \E arg \in Arguments(op) : Begin(r, op, arg)
  BY <1>5, <1>7
<1>8. CASE \E r \in Requests : r # b /\ (Step(r) \/ Fail(r))
  BY <1>3, <1>8 DEF SameGen
<1>9. CASE Step(b) \/ Fail(b)
  BY <1>2, <1>9
<1> QED
  BY <1>1, <1>6, <1>7, <1>8, <1>9 DEF Next

(* What a build that met no build has written stays as it wrote it. *)
LEMMA WriteStep ==
  ASSUME StateInv, MetInv, WriteInv, [Next]_vars
  PROVE  WriteInv'
<1> SUFFICES ASSUME NEW b \in Of(Building)', ~Met(b, Building)',
                    req'[b].pc \in {"write", "save"}
             PROVE  /\ req'[b].pc = "write" =>
                         \A i \in 1..(req'[b].k - 1) : generated'[Files[i]] = req'[b].gen
                    /\ req'[b].pc = "save" =>
                         \A f \in ToSet(Files) : generated'[f] = req'[b].gen
  BY DEF WriteInv
<1>1. b \in Requests /\ req'[b].op \in Building
  BY DEF Of
<1>2. ~Met(b, Building)
  BY <1>1, MetGrows DEF Building
<1>3. CASE \A r \in Requests : ~WriteArtifact(r)
  <2>1. generated' = generated
    BY <1>3, GeneratedStep
  <2>2. ASSUME Save(b) PROVE FALSE
    <3>1. req'[b].pc \in {"load_again", "done"}
      BY <1>1, <2>2, Effects
    <3> QED
      BY <3>1
  <2>3. \/ req[b].pc = req'[b].pc /\ SameGen(b) /\ req'[b].k = req[b].k
        \/ req'[b].pc = "write" /\ req'[b].k = 1
    BY <1>1, <1>3, <2>2, WriterStep
  <2>4. CASE req'[b].pc = "write" /\ req'[b].k = 1
    BY <2>4
  <2>5. CASE req[b].pc = req'[b].pc /\ SameGen(b) /\ req'[b].k = req[b].k
    <3>1. req[b].op = req'[b].op
      <4>1. req[b].op # "none"
        BY <1>1, <2>5 DEF StateInv, RequestsProper, Proper, LocalStage
      <4> QED
        BY <1>1, <4>1, Grows
    <3>2. b \in Of(Building)
      BY <1>1, <3>1 DEF Of
    <3> QED
      BY <1>2, <2>1, <2>5, <3>2 DEF WriteInv, SameGen
  <2> QED
    BY <2>3, <2>4, <2>5
<1>4. ASSUME NEW r \in Requests, WriteArtifact(r)
      PROVE  /\ req'[b].pc = "write" =>
                  \A i \in 1..(req'[b].k - 1) : generated'[Files[i]] = req'[b].gen
             /\ req'[b].pc = "save" =>
                  \A f \in ToSet(Files) : generated'[f] = req'[b].gen
  <2>1. /\ req[r].pc = "write" /\ req[r].k \in 1..Len(Files) /\ req[r].op \in Building
        /\ generated' = [generated EXCEPT ![Files[req[r].k]] = req[r].gen]
        /\ DOMAIN generated = ToSet(Files)
    BY <1>4 DEF WriteArtifact, At, StateInv, RequestsProper, Proper, LocalStage, LocalHeld,
       FilesTyped
  <2>2. /\ Kept(r) /\ SameGen(r)
        /\ \/ req[r].k < Len(Files) /\ req'[r].pc = "write" /\ req'[r].k = req[r].k + 1
           \/ req[r].k = Len(Files) /\ req'[r].pc = "save"
    BY <1>4, Effects DEF Same
  <2>3. b = r
    <3> SUFFICES ASSUME b # r PROVE FALSE
      OBVIOUS
    <3>1. req'[b] = req[b]
      BY <1>1, <2>2 DEF Kept, Others
    <3>2. b \in Running /\ r \in Running
      BY <1>1, <2>1, <3>1 DEF Running, Ended
    <3>3. r \in req[b].met /\ r \in Of(Building)
      BY <2>1, <3>2 DEF MetInv, Of
    <3> QED
      BY <1>2, <3>3 DEF Met
  <2>4. \A i \in 1..Len(Files) : Files[i] \in ToSet(Files)
    BY DEF ToSet
  <2>5. \A f \in ToSet(Files) : \E i \in 1..Len(Files) : f = Files[i]
    BY DEF ToSet
  <2>6. \A i \in 1..(req[r].k - 1) : generated[Files[i]] = req[r].gen
    BY <1>2, <2>1, <2>3 DEF WriteInv, Of
  <2>7. \A i \in 1..req[r].k : generated'[Files[i]] = req[r].gen
    <3> SUFFICES ASSUME NEW i \in 1..req[r].k
                 PROVE  generated'[Files[i]] = req[r].gen
      OBVIOUS
    <3>1. Len(Files) \in Nat
      BY ProjectAssumption
    <3>2. i \in 1..Len(Files) /\ Files[i] \in DOMAIN generated
      BY <2>1, <2>4, <3>1
    <3>3. i = req[r].k \/ i \in 1..(req[r].k - 1)
      BY <2>1, <3>1
    <3> QED
      BY <2>1, <2>6, <3>2, <3>3
  <2> QED
    <3>1. req'[r].gen = req[r].gen /\ req[r].k \in Nat
      BY <2>1, <2>2 DEF SameGen
    <3>2. CASE req[r].k < Len(Files) /\ req'[r].pc = "write" /\ req'[r].k = req[r].k + 1
      BY <2>3, <2>7, <3>1, <3>2
    <3>3. CASE req[r].k = Len(Files) /\ req'[r].pc = "save"
      BY <2>3, <2>5, <2>7, <3>1, <3>3
    <3> QED
      BY <2>2, <3>2, <3>3
<1> QED
  BY <1>3, <1>4
(* An edit under way holds the last build, unless a build was overlapped. *)
LEMMA EditHoldsStep ==
  ASSUME StateInv, MetInv, EditHoldsInv, [Next]_vars
  PROVE  EditHoldsInv'
<1> SUFFICES ASSUME NEW s \in Of(Editing)', req'[s].pc \in Holding, ~Overlapped'
             PROVE  req'[s].loaded.last_build = project'.last_build
  BY DEF EditHoldsInv
<1>1. s \in Requests /\ req'[s].op \in Editing
  BY DEF Of
<1>2. ~Overlapped
  BY OverlapStays
<1>3. CASE \A r \in Requests : ~Save(r)
  <2>1. /\ project' = project /\ req'[s].op = req[s].op
        /\ req'[s].loaded = project \/ (req[s].pc \in Holding /\ SameLoaded(s))
    BY <1>1, <1>3, HoldStep
  <2>2. s \in Of(Editing)
    BY <1>1, <2>1 DEF Of
  <2> QED
    BY <1>2, <2>1, <2>2 DEF EditHoldsInv, SameLoaded
<1>4. ASSUME NEW r \in Requests, Save(r)
      PROVE  req'[s].loaded.last_build = project'.last_build
  <2>1. /\ project' = Saved(r) /\ req[r].op \in Editing \cup Building
        /\ req[r].pc = "save" /\ req[r].loaded \in Projects /\ req'[r].pc \notin Holding
        /\ Kept(r)
        /\ \A t \in Requests \ {r} : req[t].pc \in Holding \cup Deploying =>
             t \in req[r].met /\ r \in req[t].met
    BY <1>4, SaveStep
  <2>2. s # r /\ req'[s] = req[s]
    BY <1>1, <2>1 DEF Kept, Others
  <2>3. s \in Of(Editing) /\ req[s].pc \in Holding /\ s \in req[r].met
    BY <1>1, <2>1, <2>2 DEF Of
  <2>4. req[s].loaded.last_build = project.last_build
    BY <1>2, <2>3 DEF EditHoldsInv
  <2>5. req[r].op \notin Building
    <3> SUFFICES ASSUME req[r].op \in Building PROVE FALSE
      OBVIOUS
    <3>1. r \in Of(Building) /\ s \in Of(Building \cup Editing)
      BY <2>3 DEF Of
    <3>2. Met(r, Building \cup Editing)
      BY <2>3, <3>1 DEF Met
    <3> QED
      BY <1>2, <3>1, <3>2 DEF Overlapped
  <2>6. r \in Of(Editing) /\ req[r].pc \in Holding
    BY <2>1, <2>5 DEF Of, Holding
  <2>7. req[r].loaded.last_build = project.last_build
    BY <1>2, <2>6 DEF EditHoldsInv
  <2>8. project'.last_build = req[r].loaded.last_build
    BY <2>1, <2>5 DEF Saved, Projects
  <2> QED
    BY <2>2, <2>4, <2>7, <2>8
<1> QED
  BY <1>3, <1>4

(* Artifacts are of the generation last_build tells of, or there is a build *)
(* that explains why not. *)
Agreed == \A f \in ToSet(Files) : generated[f] = project.last_build
Explains(r) ==
  r \in Of(Building) /\ (req[r].pc \in {"write", "save", "failed"} \/ Met(r, Building \cup Editing))

(* Artifacts differ from the last build only while a build is under way,   *)
(* after it ended early, or after it met another request.                  *)
LEMMA GenerationsStep ==
  ASSUME StateInv, MetInv, WriteInv, EditHoldsInv, GenerationsAgree, [Next]_vars
  PROVE  GenerationsAgree'
<1>a. GenerationsAgree <=> Agreed \/ \E r \in Requests : Explains(r)
  BY DEF GenerationsAgree, Agreed, Explains, Of
<1>b. GenerationsAgree' <=> Agreed' \/ \E r \in Requests : Explains(r)'
  BY DEF GenerationsAgree, Agreed, Explains, Of
<1>c. Overlapped <=> \E r \in Requests : r \in Of(Building) /\ Met(r, Building \cup Editing)
  BY DEF Overlapped, Of
<1>d. Overlapped => GenerationsAgree'
  <2>1. Overlapped' => \E r \in Requests : Explains(r)'
    BY DEF Overlapped, Explains, Of
  <2> QED
    BY <1>b, <2>1, OverlapStays
<1>1. ASSUME NEW r \in Requests, WriteArtifact(r)
      PROVE  GenerationsAgree'
  <2>1. r \in Of(Building)
    BY <1>1 DEF WriteArtifact, At, StateInv, RequestsProper, Proper, LocalStage, Of
  <2>2. r \in Of(Building)'
    BY <2>1, MetGrows DEF Building
  <2>3. req'[r].pc \in {"write", "save"}
    BY <1>1, Effects
  <2> QED
    BY <1>b, <2>2, <2>3 DEF Explains
<1>2. ASSUME NEW r \in Requests, Save(r), req[r].op \in Building, ~Overlapped
      PROVE  GenerationsAgree'
  <2>1. req[r].pc = "save" /\ r \in Of(Building) /\ req[r].loaded \in Projects
        /\ project' = Saved(r)
    BY <1>2, SaveStep DEF Of
  <2>2. CASE Met(r, Building)
    <3>1. Met(r, Building \cup Editing)
      BY <2>2 DEF Met, Of
    <3> QED
      BY <1>2, <1>c, <2>1, <3>1
  <2>3. CASE \A f \in ToSet(Files) : generated[f] = req[r].gen
    <3>1. project'.last_build = req[r].gen
      BY <1>2, <2>1 DEF Saved, Projects
    <3>2. generated' = generated
      BY <1>2 DEF Save
    <3> QED
      BY <1>b, <2>3, <3>1, <3>2 DEF Agreed
  <2> QED
    BY <2>1, <2>2, <2>3 DEF WriteInv
<1>3. ASSUME \A r \in Requests : ~WriteArtifact(r), ~Overlapped,
             \A r \in Requests : Save(r) => req[r].op \notin Building
      PROVE  GenerationsAgree'
  <2>1. generated' = generated
    BY <1>3, GeneratedStep
  <2>2. project'.last_build = project.last_build
    <3>1. CASE \A r \in Requests : ~Save(r)
      BY <3>1, HoldStep
    <3>2. ASSUME NEW r \in Requests, Save(r) PROVE project'.last_build = project.last_build
      <4>1. /\ project' = Saved(r) /\ req[r].op \in Editing /\ req[r].pc = "save"
            /\ req[r].loaded \in Projects
        BY <1>3, <3>2, SaveStep
      <4>2. req[r].loaded.last_build = project.last_build
        BY <1>3, <4>1 DEF EditHoldsInv, Of, Holding
      <4>3. req[r].op \notin Building
        BY <1>3, <3>2
      <4> QED
        BY <4>1, <4>2, <4>3 DEF Saved, Projects
    <3> QED
      BY <3>1, <3>2
  <2>3. CASE Agreed
    BY <1>b, <2>1, <2>2, <2>3 DEF Agreed
  <2>4. ASSUME NEW r \in Requests, Explains(r) PROVE GenerationsAgree'
    <3>1. r \in Of(Building) /\ req[r].op \in Building /\ req[r].pc \in {"write", "save", "failed"}
      BY <1>3, <1>c, <2>4 DEF Explains, Of
    <3>2. ~WriteArtifact(r) /\ ~Save(r)
      BY <1>3, <3>1
    <3>3. req'[r].pc \in {req[r].pc, "failed"}
      BY <3>1, <3>2, WriterStep
    <3>4. r \in Of(Building)'
      BY <3>1, MetGrows DEF Building
    <3> QED
      BY <1>b, <3>1, <3>3, <3>4 DEF Explains
  <2> QED
    BY <1>a, <2>3, <2>4
<1> QED
  BY <1>1, <1>2, <1>3, <1>d
-----------------------------------------------------------------------------
(* Packages.                                                               *)

(* A copy adds one file and leaves the others. *)
LEMMA CopyAdds ==
  ASSUME NEW copies, NEW name, NEW value
  PROVE  LET more == With(copies, name, value) IN
         /\ name \in DOMAIN more /\ more[name] = value
         /\ \A n \in DOMAIN copies : n # name => n \in DOMAIN more /\ more[n] = copies[n]
<1> QED
  BY DEF With

(* A request that runs with an undisturbed deployment leaves alone what    *)
(* that deployment works on.                                               *)
LEMMA OthersLeaveAlone ==
  ASSUME StateInv, MetInv, ConfigureInv, NEW d \in Requests, req[d].op = "deploy", d \in Running,
         NEW r \in Requests, r # d, Step(r) \/ Fail(r), ~Excused(d)
  PROVE  /\ project'.file = project.file /\ contents' = contents /\ generated' = generated
         /\ package' = package /\ req'[d] = req[d]
<1>a. Proper(req[r])
  BY DEF StateInv, RequestsProper
<1>1. r \in Running
  BY DEF Step, Load, WriteSource, WriteOverrides, ReadSource, ReadOverrides, WriteArtifact,
     Save, LoadAgain, RemovePackage, MakePackage, CopyArtifact, Inventory, ReadDigest,
     WriteManifest, Fail, Running, At, Ended
<1>2. r \in req[d].met
  BY <1>1 DEF MetInv
<1>3. req[r].op \notin {"import"} \cup Building
  BY <1>2 DEF Excused, Met, Of
<1>4. ~WriteSource(r) /\ ~ReadSource(r) /\ ~ReadOverrides(r) /\ ~WriteArtifact(r)
  BY <1>a, <1>3 DEF Proper, LocalStage, WriteSource, ReadSource, ReadOverrides, WriteArtifact,
     At, Reading
<1>5. /\ ~LoadAgain(r) /\ ~RemovePackage(r) /\ ~MakePackage(r) /\ ~CopyArtifact(r)
      /\ ~Inventory(r) /\ ~ReadDigest(r) /\ ~WriteManifest(r)
  BY <1>a, <1>3 DEF Proper, LocalStage, LoadAgain, RemovePackage, MakePackage, CopyArtifact,
     Inventory, ReadDigest, WriteManifest, At, Deploying, Packing, Building
<1>6. req'[d] = req[d]
  BY Effects DEF Step, Moves, Kept, Others
<1>7. CASE Load(r) \/ WriteOverrides(r) \/ Fail(r)
  BY <1>6, <1>7 DEF Load, WriteOverrides, Fail, files
<1>8. CASE Save(r)
  <2>1. /\ project' = Saved(r) /\ req[r].op \in Editing \cup Building
        /\ req[r].pc = "save" /\ req[r].loaded \in Projects
    BY <1>8, SaveStep
  <2>2. req[r].op = "configure"
    BY <1>3, <2>1 DEF Editing
  <2>3. r \in Of({"configure"})
    BY <2>2 DEF Of
  <2>4. (req[r].met \ {d}) \cap Of(Editing \cup Building) = {}
    BY <1>2, <2>3 DEF Excused
  <2>5. d \notin Of(Editing \cup {"build"})
    BY DEF Of, Editing
  <2>6. req[r].loaded.file = project.file
    BY <2>1, <2>3, <2>4, <2>5 DEF ConfigureInv
  <2>7. project'.file = project.file
    BY <2>1, <2>2, <2>6 DEF Saved, Projects
  <2> QED
    BY <1>6, <1>8, <2>7 DEF Save
<1> QED
  BY <1>4, <1>5, <1>7, <1>8 DEF Step

(* An undisturbed deployment keeps working on the project as it is. *)
LEMMA DeployStep ==
  ASSUME StateInv, MetInv, WriteInv, ConfigureInv, DeployInv, [Next]_vars
  PROVE  DeployInv'
<1> SUFFICES ASSUME NEW d \in Of({"deploy"})', ~Excused(d)'
             PROVE  Undisturbed(req[d])'
  BY DEF DeployInv
<1>1. d \in Requests /\ req'[d].op = "deploy"
  BY DEF Of
<1>2. ~Excused(d)
  BY <1>1, ExcuseStays
<1> DEFINE q == req[d]
<1>a. Proper(q)
  BY <1>1 DEF StateInv, RequestsProper
<1>b. Len(Files) \in Nat /\ \A f \in ToSet(Files) : \E i \in 1..Len(Files) : f = Files[i]
  BY ProjectAssumption DEF ToSet
<1>c. \A i \in 1..Len(Files) : Files[i] \in ToSet(Files)
  BY DEF ToSet
<1>3. ASSUME NEW op \in Editing \cup Building \cup {"overrides"}, NEW arg \in Arguments(op),
             Begin(d, op, arg)
      PROVE  Undisturbed(req[d])'
  <2>1. req'[d].pc = "load"
    BY <1>1, <1>3, BeginEffects
  <2> QED
    BY <2>1 DEF Undisturbed, Reading, Deploying, Packing
<1>4. ASSUME \/ UNCHANGED vars
             \/ \E r \in Requests \ {d} :
                  \E op \in Editing \cup Building \cup {"overrides"} :
                    \E arg \in Arguments(op) : Begin(r, op, arg)
             \/ \E r \in Requests \ {d} : Step(r) \/ Fail(r)
      PROVE  Undisturbed(req[d])'
  <2>1. /\ req'[d].op = req[d].op /\ req'[d].pc = req[d].pc /\ req'[d].k = req[d].k
        /\ Same(d)
    <3>1. CASE UNCHANGED vars
      BY <3>1 DEF vars, Same, SameLoaded, SameGen, SameInventory, SameDigest
    <3>2. ASSUME NEW r \in Requests \ {d}, NEW op \in Editing \cup Building \cup {"overrides"},
                 NEW arg \in Arguments(op), Begin(r, op, arg)
          PROVE  /\ req'[d].op = req[d].op /\ req'[d].pc = req[d].pc /\ req'[d].k = req[d].k
                 /\ Same(d)
      BY <1>1, <3>2, BeginOthers
    <3>3. ASSUME NEW r \in Requests \ {d}, Step(r) \/ Fail(r)
          PROVE  req'[d] = req[d]
      BY <1>1, <3>3, Effects DEF Step, Moves, Kept, Others
    <3> QED
      BY <1>4, <3>1, <3>2, <3>3 DEF Same, SameLoaded, SameGen, SameInventory, SameDigest
  <2>2. CASE d \notin Running
    <3>1. req'[d].pc \in Ended
      BY <1>1, <2>1, <2>2 DEF Running
    <3> QED
      BY <3>1 DEF Ended, Undisturbed, Reading, Deploying, Packing
  <2>3. CASE d \in Running
    <3>1. /\ project'.file = project.file /\ contents' = contents /\ generated' = generated
          /\ package' = package
      <4>1. CASE UNCHANGED vars
        BY <4>1 DEF vars, files
      <4>2. ASSUME NEW r \in Requests, NEW op, NEW arg, Begin(r, op, arg)
            PROVE  UNCHANGED files
        BY <4>2 DEF Begin
      <4>3. ASSUME NEW r \in Requests \ {d}, Step(r) \/ Fail(r)
            PROVE  /\ project'.file = project.file /\ contents' = contents
                   /\ generated' = generated /\ package' = package
        BY <1>1, <1>2, <2>1, <2>3, <4>3, OthersLeaveAlone
      <4> QED
        BY <1>4, <4>1, <4>2, <4>3 DEF files
    <3>2. Undisturbed(q)
      BY <1>1, <1>2, <2>1 DEF DeployInv, Of
    <3> QED
      BY <2>1, <3>1, <3>2 DEF Undisturbed, AllCopied, Copied, Same, SameLoaded, SameGen,
         SameInventory, SameDigest
  <2> QED
    BY <2>2, <2>3
<1>5. ASSUME Step(d) \/ Fail(d)
      PROVE  Undisturbed(req[d])'
  <2>1. Kept(d)
    BY <1>1, <1>5, Effects DEF Step, Moves
  <2>2. q.op = "deploy" /\ Undisturbed(q)
    BY <1>1, <1>2, <2>1 DEF Kept, DeployInv, Of
  <2> USE DEF Reading, Deploying, Packing
  <2>3. CASE Load(d)
    <3>1. req'[d].pc = "read_source" /\ req'[d].loaded = project
      BY <1>1, <2>2, <2>3, Effects DEF Building
    <3>2. project' = project
      BY <2>3 DEF Load, files
    <3> QED
      BY <3>1, <3>2 DEF Undisturbed
  <2>4. CASE ReadSource(d)
    <3>1. /\ req'[d].pc = "read_overrides" /\ SameLoaded(d)
          /\ req'[d].gen.source = contents[q.loaded.file]
      BY <1>1, <2>4, Effects DEF Moves
    <3>2. project' = project /\ contents' = contents /\ q.pc = "read_source"
      BY <2>4 DEF ReadSource, At, files
    <3> QED
      BY <2>2, <3>1, <3>2 DEF Undisturbed, SameLoaded
  <2>5. CASE ReadOverrides(d)
    <3>1. /\ req'[d].pc = "write" /\ SameLoaded(d) /\ req'[d].gen.source = q.gen.source
          /\ req'[d].k = 1
      BY <1>1, <2>5, Effects DEF Moves
    <3>2. project' = project /\ contents' = contents /\ q.pc = "read_overrides"
      BY <2>5 DEF ReadOverrides, At, files
    <3> QED
      BY <2>2, <3>1, <3>2 DEF Undisturbed, SameLoaded
  <2>6. CASE WriteArtifact(d)
    <3>1. /\ SameLoaded(d) /\ SameGen(d)
          /\ \/ q.k < Len(Files) /\ req'[d].pc = "write" /\ req'[d].k = q.k + 1
             \/ q.k = Len(Files) /\ req'[d].pc = "save"
      BY <1>1, <2>6, Effects DEF Same
    <3>2. /\ project' = project /\ contents' = contents /\ q.pc = "write"
          /\ generated' = [generated EXCEPT ![Files[q.k]] = q.gen]
          /\ q.k \in 1..Len(Files) /\ DOMAIN generated = ToSet(Files)
      BY <1>a, <2>6 DEF WriteArtifact, At, Proper, LocalHeld, StateInv, FilesTyped
    <3>3. \A i \in 1..q.k : generated'[Files[i]] = q.gen
      <4> SUFFICES ASSUME NEW i \in 1..q.k
                   PROVE  generated'[Files[i]] = q.gen
        OBVIOUS
      <4>1. i \in 1..Len(Files) /\ Files[i] \in DOMAIN generated
        BY <1>b, <1>c, <3>2
      <4>2. i = q.k \/ i \in 1..(q.k - 1)
        BY <1>b, <3>2
      <4> QED
        BY <2>2, <3>2, <4>1, <4>2 DEF Undisturbed
    <3>4. req'[d].pc = "save" => \A f \in ToSet(Files) : generated'[f] = q.gen
      BY <1>b, <3>1, <3>3
    <3>5. req'[d].pc = "write" => \A i \in 1..(req'[d].k - 1) : generated'[Files[i]] = q.gen
      BY <3>1, <3>2, <3>3
    <3> QED
      BY <2>2, <3>1, <3>2, <3>4, <3>5 DEF Undisturbed, SameLoaded, SameGen
  <2>7. CASE Save(d)
    <3>1. req'[d].pc = "load_again" /\ Same(d)
      BY <1>1, <2>2, <2>7, Effects
    <3>2. /\ q.pc = "save" /\ contents' = contents /\ generated' = generated
          /\ project' = Saved(d) /\ q.loaded \in Projects
      BY <1>1, <2>7, SaveStep DEF Save
    <3>3. project'.file = project.file
      BY <2>2, <3>2 DEF Saved, Projects, Undisturbed
    <3> QED
      BY <2>2, <3>1, <3>2, <3>3 DEF Undisturbed, Same, SameLoaded, SameGen
  <2>8. CASE LoadAgain(d)
    <3>1. /\ req'[d].loaded = project /\ SameGen(d) /\ SameInventory(d) /\ SameDigest(d)
          /\ \/ q.pc = "load_again" /\ req'[d].pc = "remove"
             \/ q.pc = "load_for_digest" /\ req'[d].pc = "digest"
      BY <1>1, <2>8, Effects
    <3>2. project' = project /\ contents' = contents /\ generated' = generated /\ package' = package
      BY <2>8 DEF LoadAgain, files
    <3> QED
      BY <2>2, <3>1, <3>2 DEF Undisturbed, AllCopied, Copied, SameGen, SameInventory
  <2>9. CASE RemovePackage(d) \/ MakePackage(d)
    <3>1. Same(d) /\ req'[d].pc \in {"make", "copy"}
      BY <1>1, <2>9, Effects DEF Moves
    <3>2. q.pc \in {"remove", "make"} /\ project' = project /\ contents' = contents
          /\ generated' = generated
      BY <2>9 DEF RemovePackage, MakePackage, At
    <3>3. req'[d].pc = "copy" => req'[d].k = 1
      <4>1. CASE RemovePackage(d)
        <5>1. req'[d].pc = "make"
          BY <1>1, <4>1, Effects DEF Moves
        <5> QED
          BY <5>1
      <4>2. CASE MakePackage(d)
        BY <1>1, <1>a, <4>2, Effects DEF Proper, LocalHeld, MakePackage, At
      <4> QED
        BY <2>9, <4>1, <4>2
    <3> QED
      BY <2>2, <3>1, <3>2, <3>3 DEF Undisturbed, Same, SameLoaded, SameGen
  <2>10. CASE CopyArtifact(d)
    <3>1. \/ req'[d].pc = "failed"
          \/ /\ package.exists /\ Same(d)
             /\ \/ q.k = Len(Files) + 1 /\ req'[d].pc = "inventory"
                \/ q.k <= Len(Files) /\ req'[d].pc = "copy" /\ req'[d].k = q.k + 1
      BY <1>1, <2>10, Effects
    <3>2. CASE req'[d].pc = "failed"
      BY <3>2 DEF Undisturbed
    <3>3. CASE req'[d].pc # "failed"
      <4> DEFINE name == IF q.k > Len(Files) THEN "source" ELSE Files[q.k]
                 value == IF q.k > Len(Files) THEN contents[q.loaded.file] ELSE generated[name]
      <4>1. /\ q.pc = "copy" /\ q.k \in 1..(Len(Files) + 1)
            /\ project' = project /\ contents' = contents /\ generated' = generated
        BY <1>a, <2>10 DEF CopyArtifact, At, Proper, LocalHeld
      <4>2. package'.copies = With(package.copies, name, value)
        <5>1. package \in [exists : BOOLEAN, copies : {package.copies},
                           manifest : {package.manifest}]
          BY DEF StateInv, FilesTyped
        <5> HIDE DEF value
        <5>2. package' = [package EXCEPT !.copies = With(package.copies, name, value)]
          BY <2>10, <3>1, <3>3 DEF CopyArtifact, value
        <5> QED
          BY <5>1, <5>2
      <4>3. name \in DOMAIN package'.copies /\ package'.copies[name] = value
        BY <4>2, CopyAdds
      <4>4. ASSUME NEW n, NEW v, n # name, Copied(n, v) PROVE Copied(n, v)'
        BY <4>2, <4>4, CopyAdds DEF Copied
      <4>g. PICK g : g = q.gen
        OBVIOUS
      <4>5. CASE q.k = Len(Files) + 1
        <5>1. req'[d].pc = "inventory" /\ Same(d)
          BY <1>b, <3>1, <3>3, <4>5
        <5>2. name = "source" /\ value = contents[q.loaded.file]
          BY <1>b, <4>5
        <5>3. ASSUME NEW f \in ToSet(Files) PROVE Copied(f, g)'
          <6>1. PICK i \in 1..Len(Files) : f = Files[i]
            BY <1>b
          <6>2. Copied(f, g)
            BY <1>b, <2>2, <4>1, <4>5, <4>g, <6>1 DEF Undisturbed
          <6>3. f # "source"
            BY ProjectAssumption
          <6> QED
            BY <4>4, <5>2, <6>2, <6>3
        <5>4. Copied("source", contents[project.file])'
          BY <2>2, <4>1, <4>3, <5>2 DEF Copied, Undisturbed
        <5> QED
          BY <2>2, <4>1, <4>g, <5>1, <5>3, <5>4 DEF Undisturbed, AllCopied, Same, SameLoaded, SameGen
      <4>6. CASE q.k # Len(Files) + 1
        <5>1. /\ q.k \in 1..Len(Files) /\ req'[d].pc = "copy" /\ req'[d].k = q.k + 1 /\ Same(d)
          BY <1>b, <3>1, <3>3, <4>1, <4>6
        <5>2. name = Files[q.k] /\ value = g
          BY <1>b, <1>c, <2>2, <4>1, <4>g, <5>1 DEF Undisturbed
        <5>3. ASSUME NEW i \in 1..q.k PROVE Copied(Files[i], g)'
          <6>1. CASE Files[i] = name
            BY <4>3, <5>2, <6>1 DEF Copied
          <6>2. CASE Files[i] # name
            <7>1. i \in 1..(q.k - 1)
              BY <5>1, <5>2, <6>2
            <7> QED
              BY <2>2, <4>1, <4>4, <4>g, <6>2, <7>1 DEF Undisturbed
          <6> QED
            BY <6>1, <6>2
        <5>4. \A i \in 1..(req'[d].k - 1) : Copied(Files[i], g)'
          BY <5>1, <5>3
        <5> QED
          BY <2>2, <4>1, <4>g, <5>1, <5>4 DEF Undisturbed, Same, SameLoaded, SameGen
      <4> QED
        BY <4>5, <4>6
    <3> QED
      BY <3>2, <3>3
  <2>11. CASE Inventory(d)
    <3>1. \/ req'[d].pc = "failed"
          \/ /\ req'[d].pc = "load_for_digest" /\ req'[d].inventory = package.copies
             /\ SameLoaded(d) /\ SameGen(d)
      BY <1>1, <2>11, Effects
    <3>2. /\ project' = project /\ contents' = contents /\ generated' = generated
          /\ package' = package /\ q.pc = "inventory"
      BY <2>11 DEF Inventory, At, files
    <3> QED
      BY <2>2, <3>1, <3>2 DEF Undisturbed, AllCopied, Copied, SameLoaded, SameGen
  <2>12. CASE ReadDigest(d)
    <3>1. /\ req'[d].pc = "manifest" /\ req'[d].digest = contents[q.loaded.file]
          /\ SameLoaded(d) /\ SameGen(d) /\ SameInventory(d)
      BY <1>1, <2>12, Effects DEF Moves
    <3>2. /\ project' = project /\ contents' = contents /\ generated' = generated
          /\ package' = package /\ q.pc = "digest"
      BY <2>12 DEF ReadDigest, At, files
    <3> QED
      BY <2>2, <3>1, <3>2 DEF Undisturbed, AllCopied, Copied, SameLoaded, SameGen, SameInventory
  <2>13. CASE WriteManifest(d) \/ Fail(d) \/ WriteSource(d) \/ WriteOverrides(d)
    <3>1. ~WriteSource(d) /\ ~WriteOverrides(d)
      BY <1>a, <2>2 DEF Proper, LocalStage, WriteSource, WriteOverrides, At
    <3>2. req'[d].pc \in {"done", "failed"}
      BY <1>1, <2>13, <3>1, Effects DEF Moves
    <3> QED
      BY <3>2 DEF Undisturbed
  <2> QED
    BY <1>5, <2>3, <2>4, <2>5, <2>6, <2>7, <2>8, <2>9, <2>10, <2>11, <2>12, <2>13 DEF Step
<1> QED
  BY <1>1, <1>3, <1>4, <1>5 DEF Next
(* A configuration saves the source file of now, unless others overlapped. *)
LEMMA ConfigureStep ==
  ASSUME StateInv, MetInv, ConfigureInv, DeployInv, [Next]_vars
  PROVE  ConfigureInv'
<1> SUFFICES ASSUME NEW s \in Of({"configure"})', NEW d \in Requests, req'[s].pc = "save",
                    ~((req[s].met \ {d}) \cap Of(Editing \cup Building) # {})',
                    ~(d \in Of(Editing \cup {"build"}))',
                    ~(d \in Of({"deploy"}) /\ Excused(d))'
             PROVE  req'[s].loaded.file = project'.file
  BY DEF ConfigureInv
<1>1. s \in Requests /\ req'[s].op = "configure"
  BY DEF Of
<1>2. (req[s].met \ {d}) \cap Of(Editing \cup Building) = {}
  <2> SUFFICES ASSUME NEW t \in req[s].met \ {d}, t \in Of(Editing \cup Building)
               PROVE  FALSE
    OBVIOUS
  <2>1. t \in Requests
    BY DEF Of
  <2>2. t \in req'[s].met \ {d}
    BY <1>1, Grows
  <2>3. t \in Of(Editing \cup Building)'
    BY <2>1, MetGrows DEF Editing, Building
  <2> QED
    BY <2>2, <2>3
<1>3. d \notin Of(Editing \cup {"build"})
  BY MetGrows DEF Editing
<1>4. ~(d \in Of({"deploy"}) /\ Excused(d))
  BY MetGrows, ExcuseStays
<1>5. CASE \A r \in Requests : ~Save(r)
  <2>1. /\ project' = project /\ req'[s].op = req[s].op
        /\ req'[s].loaded = project \/ (req[s].pc \in Holding /\ SameLoaded(s))
    BY <1>1, <1>5, HoldStep DEF Holding
  <2>2. CASE req'[s].loaded = project
    BY <2>1, <2>2
  <2>3. CASE req[s].pc \in Holding /\ SameLoaded(s)
    <3>1. s \in Of({"configure"}) /\ req[s].op = "configure"
      BY <1>1, <2>1 DEF Of
    <3>2. req[s].pc = "save"
      BY <1>1, <2>3, <3>1 DEF StateInv, RequestsProper, Proper, LocalStage, Holding, Building
    <3>3. req[s].loaded.file = project.file
      BY <1>2, <1>3, <1>4, <3>1, <3>2 DEF ConfigureInv
    <3> QED
      BY <2>1, <2>3, <3>3 DEF SameLoaded
  <2> QED
    BY <2>1, <2>2, <2>3
<1>6. ASSUME NEW r \in Requests, Save(r)
      PROVE  req'[s].loaded.file = project'.file
  <2>1. /\ project' = Saved(r) /\ req[r].op \in Editing \cup Building
        /\ req[r].pc = "save" /\ req[r].loaded \in Projects /\ req'[r].pc \notin Holding
        /\ Kept(r)
        /\ \A t \in Requests \ {r} : req[t].pc \in Holding \cup Deploying =>
             t \in req[r].met /\ r \in req[t].met
    BY <1>6, SaveStep
  <2>2. s # r /\ req'[s] = req[s] /\ s \in Of({"configure"}) /\ req[s].pc = "save"
    BY <1>1, <2>1 DEF Kept, Others, Holding, Of
  <2>3. req[s].loaded.file = project.file
    BY <1>2, <1>3, <1>4, <2>2 DEF ConfigureInv
  <2>4. r \in req[s].met /\ r \in Of(Editing \cup Building)
    BY <1>1, <2>1, <2>2 DEF Of, Holding
  <2>5. r = d
    BY <1>2, <2>4
  <2>6. req[d].op = "deploy" /\ d \in Of({"deploy"})
    BY <1>3, <2>1, <2>5 DEF Of, Building
  <2>7. Undisturbed(req[d])
    BY <1>4, <2>6 DEF DeployInv
  <2>8. req[r].loaded.file = project.file
    BY <2>1, <2>5, <2>7 DEF Undisturbed
  <2>9. project'.file = req[r].loaded.file
    BY <2>1, <2>5, <2>6 DEF Saved, Projects
  <2> QED
    BY <2>2, <2>3, <2>8, <2>9
<1> QED
  BY <1>5, <1>6

(* Steps that leave the package and its author alone. *)
LEMMA PackageKept ==
  ASSUME StateInv, [Next]_vars,
         \A r \in Requests : /\ ~RemovePackage(r) /\ ~MakePackage(r)
                             /\ ~CopyArtifact(r) /\ ~WriteManifest(r)
  PROVE  /\ package' = package /\ deployer' = deployer
         /\ \A t \in Requests : req'[t].pc \in Packing => req[t].pc \in Packing
<1>1. CASE UNCHANGED vars
  BY <1>1 DEF vars, files
<1>2. ASSUME NEW r \in Requests, Step(r) \/ Fail(r)
      PROVE  /\ package' = package /\ deployer' = deployer
             /\ \A t \in Requests : req'[t].pc \in Packing => req[t].pc \in Packing
  <2>1. package' = package /\ deployer' = deployer
    BY <1>2 DEF Step, Load, WriteSource, WriteOverrides, ReadSource, ReadOverrides,
       WriteArtifact, Save, LoadAgain, Inventory, ReadDigest, Fail, files
  <2>2. Kept(r)
    BY <1>2, Effects DEF Step, Moves
  <2>3. req'[r].pc \in Packing => req[r].pc \in Packing
    <3>1. CASE LoadAgain(r) \/ Inventory(r) \/ ReadDigest(r)
      <4>1. req[r].pc \in Packing \/ req'[r].pc = "remove"
        <5>1. CASE LoadAgain(r)
          BY <5>1, Effects DEF Packing
        <5>2. CASE Inventory(r) \/ ReadDigest(r)
          BY <5>2 DEF Inventory, ReadDigest, At, Packing
        <5> QED
          BY <3>1, <5>1, <5>2
      <4> QED
        BY <4>1 DEF Packing
    <3>2. CASE \/ WriteSource(r) \/ WriteOverrides(r) \/ ReadSource(r)
               \/ ReadOverrides(r) \/ WriteArtifact(r) \/ Save(r) \/ Fail(r)
      <4>1. req'[r].pc \notin Packing
        BY <3>2, Effects DEF Moves, Packing
      <4> QED
        BY <4>1
    <3>3. CASE Load(r)
      <4>1. req'[r].pc \in {"write_source", "save", "write_overrides", "read_source"}
        <5>1. req[r].op \in Editing \cup Building \cup {"overrides"}
          BY <3>3 DEF StateInv, RequestsProper, Proper, LocalTyped, LocalStage, Load, At
        <5> QED
          BY <3>3, <5>1, Effects DEF Editing
      <4> QED
        BY <4>1 DEF Packing
    <3> QED
      BY <1>2, <3>1, <3>2, <3>3 DEF Step
  <2> QED
    BY <2>1, <2>2, <2>3 DEF Kept, Others
<1>3. ASSUME NEW r \in Requests, NEW op \in Editing \cup Building \cup {"overrides"},
             NEW arg \in Arguments(op), Begin(r, op, arg)
      PROVE  /\ package' = package /\ deployer' = deployer
             /\ \A t \in Requests : req'[t].pc \in Packing => req[t].pc \in Packing
  <2>1. package' = package /\ deployer' = deployer
    BY <1>3 DEF Begin, files
  <2>2. req'[r].pc \notin Packing
    BY <1>3, BeginEffects DEF Packing
  <2>3. ASSUME NEW t \in Requests, t # r PROVE req'[t].pc = req[t].pc
    BY <1>3, <2>3, BeginOthers
  <2> QED
    BY <2>1, <2>2, <2>3
<1> QED
  BY <1>1, <1>2, <1>3 DEF Next

(* The actions on the package, on its record. *)
LEMMA PackageEffects ==
  ASSUME StateInv, NEW r \in Requests
  PROVE  /\ RemovePackage(r) => package'.manifest = Never
         /\ MakePackage(r) => /\ package'.manifest = package.manifest
                              /\ package'.copies = package.copies
         /\ CopyArtifact(r) => /\ package'.manifest = package.manifest
         /\ WriteManifest(r) =>
              \/ /\ package'.manifest = [files |-> req[r].inventory,
                                         source_digest |-> req[r].digest]
                 /\ package'.copies = package.copies /\ deployer' = r
              \/ package' = package /\ deployer' = deployer
         /\ RemovePackage(r) \/ MakePackage(r) \/ CopyArtifact(r) => deployer' = deployer
<1>1. package \in [exists : BOOLEAN, copies : {package.copies}, manifest : {package.manifest}]
  BY DEF StateInv, FilesTyped
<1>2. RemovePackage(r) => package'.manifest = Never
  BY DEF RemovePackage, NoPackage
<1>3. MakePackage(r) => /\ package'.manifest = package.manifest
                        /\ package'.copies = package.copies
  BY <1>1 DEF MakePackage
<1>4. CopyArtifact(r) => package'.manifest = package.manifest
  BY <1>1 DEF CopyArtifact
<1>5. WriteManifest(r) =>
        \/ /\ package'.manifest = [files |-> req[r].inventory, source_digest |-> req[r].digest]
           /\ package'.copies = package.copies /\ deployer' = r
        \/ package' = package /\ deployer' = deployer
  BY <1>1 DEF WriteManifest
<1>6. RemovePackage(r) \/ MakePackage(r) \/ CopyArtifact(r) => deployer' = deployer
  BY DEF RemovePackage, MakePackage, CopyArtifact
<1> QED
  BY <1>2, <1>3, <1>4, <1>5, <1>6

(* Whoever works on a package with a manifest has met who wrote that. *)
LEMMA ManifestStep ==
  ASSUME StateInv, MetInv, ManifestInv, [Next]_vars
  PROVE  ManifestInv'
<1> SUFFICES ASSUME package'.manifest # Never
             PROVE  /\ deployer' \in Requests
                    /\ \A t \in Requests : req'[t].pc \in Packing => t \in req'[deployer'].met
  BY DEF ManifestInv
<1>1. ASSUME package.manifest # Never, deployer' = deployer,
             \A t \in Requests : req'[t].pc \in Packing => req[t].pc \in Packing
      PROVE  /\ deployer' \in Requests
             /\ \A t \in Requests : req'[t].pc \in Packing => t \in req'[deployer'].met
  <2>1. PICK e \in Requests : e = deployer
    BY <1>1 DEF ManifestInv
  <2>2. req[e].met \subseteq req'[e].met
    BY Grows
  <2> QED
    BY <1>1, <2>1, <2>2 DEF ManifestInv
<1>2. CASE \A r \in Requests : /\ ~RemovePackage(r) /\ ~MakePackage(r)
                               /\ ~CopyArtifact(r) /\ ~WriteManifest(r)
  BY <1>1, <1>2, PackageKept
<1>3. ASSUME NEW r \in Requests, MakePackage(r) \/ CopyArtifact(r)
      PROVE  /\ deployer' \in Requests
             /\ \A t \in Requests : req'[t].pc \in Packing => t \in req'[deployer'].met
  <2>1. package.manifest # Never /\ deployer' = deployer
    BY <1>3, PackageEffects
  <2>2. Kept(r)
    BY <1>3, Effects DEF Moves
  <2>3. req[r].pc \in Packing
    BY <1>3 DEF MakePackage, CopyArtifact, At, Packing
  <2> QED
    BY <1>1, <2>1, <2>2, <2>3 DEF Kept, Others
<1>4. ASSUME NEW r \in Requests, WriteManifest(r)
      PROVE  /\ deployer' \in Requests
             /\ \A t \in Requests : req'[t].pc \in Packing => t \in req'[deployer'].met
  <2>1. Kept(r) /\ req'[r].pc \in {"done", "failed"} /\ req[r].pc = "manifest"
    BY <1>4, Effects DEF WriteManifest, At
  <2>2. CASE deployer' = r
    <3>1. ASSUME NEW t \in Requests, req'[t].pc \in Packing
          PROVE  t \in req'[r].met
      <4>1. t # r /\ req'[t] = req[t]
        BY <2>1, <3>1 DEF Packing, Kept, Others
      <4>2. t \in Running /\ r \in Running
        BY <2>1, <3>1, <4>1 DEF Running, Ended, Packing
      <4> QED
        BY <2>1, <4>1, <4>2 DEF MetInv, Kept
    <3> QED
      BY <2>2, <3>1
  <2>3. CASE package' = package /\ deployer' = deployer
    <3>1. \A t \in Requests : req'[t].pc \in Packing => req[t].pc \in Packing
      BY <2>1 DEF Kept, Others, Packing
    <3> QED
      BY <1>1, <2>3, <3>1
  <2> QED
    BY <1>4, <2>2, <2>3, PackageEffects
<1>5. ASSUME NEW r \in Requests, RemovePackage(r) PROVE FALSE
  BY <1>5, PackageEffects
<1> QED
  BY <1>2, <1>3, <1>4, <1>5

Described ==
  /\ package.manifest.files = package.copies
  /\ package.copies["source"] = package.manifest.source_digest
  /\ \A f \in ToSet(Files) : package.copies[f].source = package.manifest.source_digest

(* A manifest describes its package unless the deployment was disturbed. *)
LEMMA PackageStep ==
  ASSUME StateInv, MetInv, DeployInv, ManifestInv, PackageDescribed, [Next]_vars
  PROVE  PackageDescribed'
<1>a. PackageDescribed <=> package.manifest = Never \/ Excused(deployer) \/ Described
  BY DEF PackageDescribed, Excused, Described
<1>b. PackageDescribed' <=> package'.manifest = Never \/ Excused(deployer)' \/ Described'
  BY DEF PackageDescribed, Excused, Described
<1> SUFFICES ASSUME package'.manifest # Never
             PROVE  Excused(deployer)' \/ Described'
  BY <1>b
<1>1. ASSUME package.manifest # Never, deployer' = deployer, Excused(deployer)
      PROVE  Excused(deployer)'
  <2>1. PICK e \in Requests : e = deployer
    BY <1>1 DEF ManifestInv
  <2>2. Excused(e)'
    BY <1>1, <2>1, ExcuseStays
  <2> QED
    BY <1>1, <2>1, <2>2 DEF Excused, Met
<1>2. ASSUME package'.manifest = package.manifest, package'.copies = package.copies,
             deployer' = deployer
      PROVE  Excused(deployer)' \/ Described'
  <2>1. Described => Described'
    BY <1>2 DEF Described
  <2> QED
    BY <1>1, <1>2, <1>a, <2>1
<1>3. CASE \A r \in Requests : /\ ~RemovePackage(r) /\ ~MakePackage(r)
                               /\ ~CopyArtifact(r) /\ ~WriteManifest(r)
  BY <1>2, <1>3, PackageKept
<1>4. ASSUME NEW r \in Requests, MakePackage(r)
      PROVE  Excused(deployer)' \/ Described'
  BY <1>2, <1>4, PackageEffects
<1>5. ASSUME NEW r \in Requests, CopyArtifact(r)
      PROVE  Excused(deployer)' \/ Described'
  <2>1. package.manifest # Never /\ deployer' = deployer
    BY <1>5, PackageEffects
  <2>2. req[r].pc \in Packing /\ req[r].op = "deploy"
    BY <1>5 DEF CopyArtifact, At, Packing, Deploying, StateInv, RequestsProper, Proper, LocalStage
  <2>3. r \in req[deployer].met /\ r \in Of({"import"} \cup Building)
    BY <2>1, <2>2 DEF ManifestInv, Of, Building
  <2>4. Excused(deployer)
    BY <2>3 DEF Excused, Met
  <2> QED
    BY <1>1, <2>1, <2>4
<1>6. ASSUME NEW r \in Requests, WriteManifest(r)
      PROVE  Excused(deployer)' \/ Described'
  <2>1. CASE package' = package /\ deployer' = deployer
    BY <1>2, <2>1
  <2>2. CASE /\ package'.manifest = [files |-> req[r].inventory,
                                     source_digest |-> req[r].digest]
             /\ package'.copies = package.copies /\ deployer' = r
    <3>1. req[r].pc = "manifest" /\ r \in Of({"deploy"})
      BY <1>6 DEF WriteManifest, At, Packing, Deploying, StateInv, RequestsProper, Proper,
         LocalStage, Of
    <3>2. CASE Excused(r)
      <4>1. Excused(r)'
        BY <3>2, ExcuseStays
      <4> QED
        BY <2>2, <4>1 DEF Excused, Met
    <3>3. CASE Undisturbed(req[r])
      <4>1. /\ req[r].gen.source = contents[project.file] /\ AllCopied(req[r])
            /\ req[r].inventory = package.copies /\ req[r].digest = contents[project.file]
        BY <3>1, <3>3 DEF Undisturbed, Deploying, Packing
      <4> QED
        BY <2>2, <4>1 DEF Described, AllCopied, Copied
    <3> QED
      BY <3>1, <3>2, <3>3 DEF DeployInv
  <2> QED
    BY <1>6, <2>1, <2>2, PackageEffects
<1>7. ASSUME NEW r \in Requests, RemovePackage(r) PROVE FALSE
  BY <1>7, PackageEffects
<1> QED
  BY <1>3, <1>4, <1>5, <1>6, <1>7
-----------------------------------------------------------------------------
(* The theorems.                                                           *)

(* A project as createStudioProject leaves it satisfies all of it. *)
LEMMA InitInv ==
  ASSUME Init
  PROVE  ProjectInv
<1>a. /\ req = [r \in Requests |-> NewRequest] /\ NewRequest.op = "none" /\ NewRequest.pc = "idle"
      /\ NewRequest.met = {} /\ NewRequest.k = 1
  BY DEF Init, NewRequest
<1>b. \A r \in Requests : req[r].op = "none" /\ req[r].pc = "idle"
  BY <1>a
<1>c. \A ops : "none" \notin ops => Of(ops) = {}
  BY <1>b DEF Of
<1>d. Running = {}
  BY <1>b DEF Running, Ended
<1>1. FilesTyped
  <2>1. package \in [exists : BOOLEAN, copies : {package.copies}, manifest : {package.manifest}]
    BY DEF Init, NoPackage
  <2> QED
    BY <2>1 DEF Init, FilesTyped, Projects, Builds, ContentValues, ModeValues
<1>2. RequestsProper
  <2>1. LocalTyped(NewRequest)
    BY DEF NewRequest, LocalTyped, Pcs, Ended, Builds, ContentValues
  <2>2. LocalStage(NewRequest) /\ LocalArgument(NewRequest) /\ LocalHeld(NewRequest)
    BY <1>a DEF LocalStage, LocalArgument, LocalHeld, Reading, Deploying, Packing, Holding
  <2>3. Proper(NewRequest)
    BY <2>1, <2>2 DEF Proper
  <2> HIDE DEF NewRequest, Proper
  <2> QED
    BY <1>a, <2>3 DEF RequestsProper
<1>3. MetInv
  BY <1>d DEF MetInv
<1>4. FileInv /\ ModeInv
  BY DEF Init, FileInv, ModeInv
<1>5. WriteInv /\ EditHoldsInv /\ DeployInv /\ ConfigureInv
  BY <1>c DEF WriteInv, EditHoldsInv, DeployInv, ConfigureInv, Editing, Building
<1>6. GenerationsAgree
  BY DEF Init, GenerationsAgree
<1>7. ManifestInv /\ PackageDescribed
  BY DEF Init, NoPackage, ManifestInv, PackageDescribed
<1> QED
  BY <1>1, <1>2, <1>3, <1>4, <1>5, <1>6, <1>7 DEF StateInv, ProjectInv

(* The conjunction of all parts is an invariant. *)
LEMMA ProjectInvariant == Spec => []ProjectInv
<1>1. ProjectInv /\ [Next]_vars => ProjectInv'
  <2> SUFFICES ASSUME ProjectInv, [Next]_vars PROVE ProjectInv'
    OBVIOUS
  <2>1. StateInv'
    BY StateStep DEF ProjectInv
  <2>2. MetInv' /\ FileInv' /\ ModeInv'
    BY MetStep, FileStep, ModeStep DEF ProjectInv
  <2>3. WriteInv' /\ EditHoldsInv' /\ GenerationsAgree'
    BY WriteStep, EditHoldsStep, GenerationsStep DEF ProjectInv
  <2>4. DeployInv' /\ ConfigureInv' /\ ManifestInv' /\ PackageDescribed'
    BY DeployStep, ConfigureStep, ManifestStep, PackageStep DEF ProjectInv
  <2> QED
    BY <2>1, <2>2, <2>3, <2>4 DEF ProjectInv
<1> QED
  BY <1>1, InitInv, PTL DEF Spec

(* An imported source or a configured mode stays in the descriptor until   *)
(* it is edited again, unless a request that saves the descriptor was      *)
(* under way together with the edit (importStudioSource,                   *)
(* configureStudioProject, saveStudioProject): for any number of requests  *)
(* of the API and the command line, in any order, and any failures.        *)
THEOREM ProjectEditsSurvive == Spec => []EditsSurvive
<1>1. ProjectInv => EditsSurvive
  <2> SUFFICES ASSUME FileInv, ModeInv PROVE EditsSurvive
    BY DEF ProjectInv
  <2>1. Overwriting("import") = {"configure"} \cup Building
    BY DEF Overwriting, Editing
  <2>2. Overwriting("configure") = {"import"} \cup Building
    BY DEF Overwriting, Editing
  <2> QED
    BY <2>1, <2>2 DEF FileInv, ModeInv, EditsSurvive
<1> QED
  BY <1>1, ProjectInvariant, PTL

(* The artifacts are all of the generation last_build tells of, unless a   *)
(* build is writing or ended in the middle, or a build ran together with   *)
(* another request that saves the descriptor (buildStudioProject).         *)
THEOREM ProjectGenerationsAgree == Spec => []GenerationsAgree
<1>1. ProjectInv => GenerationsAgree
  BY DEF ProjectInv
<1> QED
  BY <1>1, ProjectInvariant, PTL

(* A package with a manifest holds what the manifest lists, built from the *)
(* source whose digest it gives, unless a request that the property names  *)
(* ran together with the deployment (buildDeploymentPackage).              *)
THEOREM ProjectPackageDescribed == Spec => []PackageDescribed
<1>1. ProjectInv => PackageDescribed
  BY DEF ProjectInv
<1> QED
  BY <1>1, ProjectInvariant, PTL
=============================================================================
