------------------------------ MODULE StudioProject ------------------------------
(***************************************************************************)
(* The directory of a Studio project under concurrent requests: the HTTP   *)
(* API of one or more Studio servers and the command line, which share     *)
(* nothing but the files (project-store.ts, pipeline-service.ts,           *)
(* deployment-builder.ts, api-router.ts).  Every file is replaced by a     *)
(* rename, so a file is never torn; nothing locks the directory, so what a *)
(* request has read may be old when it writes.  One action is the stretch  *)
(* from one await on a file to the next.                                   *)
(*                                                                         *)
(* What a build computes is StudioPipeline's subject; here an artifact is  *)
(* its generation, the inputs it was computed from.                        *)
(***************************************************************************)
EXTENDS Naturals, SequencesExt

CONSTANTS Requests,     \* the requests that are made, each once
          Files,        \* the artifacts, in the order a build writes them
          Contents,     \* the contents that an imported source may have
          Modes,        \* the authentication modes
          OverrideSets, \* the override files
          Never,        \* the generation of what was not built yet
          Nobody,       \* the editor of what createStudioProject wrote
          MaxFailures   \* bound: requests that end in the middle

ASSUME ProjectAssumption ==
  /\ Files \in Seq(STRING) \ {<< >>}
  /\ "source" \notin ToSet(Files)

VARIABLES project,    \* studio-project.json: source file, mode, last build
          contents,   \* of source/openapi.json and source/openapi.yaml
          overrides,
          generated,  \* the artifacts' generations
          package,    \* the deployment directory
          req,        \* the local state of the requests
          editor,     \* history: whose save set the source file, the mode
          deployer,   \* history: who wrote the manifest
          failures
files == <<project, contents, overrides, generated, package>>
vars == <<files, req, editor, deployer, failures>>

Editing == {"import", "configure"}
Building == {"build", "deploy"}
Ended == {"idle", "done", "failed"}

NoPackage == [exists |-> FALSE, copies |-> << >>, manifest |-> Never]
NewRequest == [op |-> "none", arg |-> Never, pc |-> "idle", loaded |-> Never, gen |-> Never,
               k |-> 1, inventory |-> << >>, digest |-> Never, met |-> {}]

(* createStudioProject with its example. *)
Init ==
  /\ project = [file |-> "json", mode |-> "bearer", last_build |-> Never]
  /\ contents = [json |-> "example", yaml |-> Never]
  /\ overrides = "empty"
  /\ generated = [f \in ToSet(Files) |-> Never]
  /\ package = NoPackage
  /\ req = [r \in Requests |-> NewRequest]
  /\ editor = [file |-> Nobody, mode |-> Nobody]
  /\ deployer = Nobody
  /\ failures = 0

Running == {r \in Requests : req[r].pc \notin Ended}
Arguments(op) ==
  CASE op = "import" -> {[file |-> f, content |-> c] : f \in {"json", "yaml"}, c \in Contents}
    [] op = "configure" -> Modes
    [] op = "overrides" -> OverrideSets
    [] OTHER -> {Never}

(* Requests that are under way together have met, for good. *)
Begin(r, op, arg) ==
  /\ req[r].pc = "idle"
  /\ req' = [s \in Requests |->
               IF s = r THEN [req[r] EXCEPT !.op = op, !.arg = arg, !.pc = "load", !.met = Running]
               ELSE IF s \in Running THEN [req[s] EXCEPT !.met = @ \cup {r}] ELSE req[s]]
  /\ UNCHANGED <<files, editor, deployer, failures>>

At(r, pc) == req[r].pc = pc
Goto(r, pc) == req' = [req EXCEPT ![r].pc = pc]
Ends(r) == req' = [req EXCEPT ![r].pc = "done", ![r].loaded = Never, ![r].k = 1]
Fails(r) == req' = [req EXCEPT ![r].pc = "failed", ![r].loaded = Never, ![r].k = 1]

Load(r) ==
  /\ At(r, "load")
  /\ req' = [req EXCEPT ![r].loaded = project,
                        ![r].pc = CASE req[r].op = "import" -> "write_source"
                                    [] req[r].op = "configure" -> "save"
                                    [] req[r].op = "overrides" -> "write_overrides"
                                    [] OTHER -> "read_source"]
  /\ UNCHANGED <<files, editor, deployer, failures>>

WriteSource(r) ==
  /\ At(r, "write_source")
  /\ contents' = [contents EXCEPT ![req[r].arg.file] = req[r].arg.content]
  /\ Goto(r, "save")
  /\ UNCHANGED <<project, overrides, generated, package, editor, deployer, failures>>

WriteOverrides(r) ==
  /\ At(r, "write_overrides")
  /\ overrides' = req[r].arg
  /\ Ends(r)
  /\ UNCHANGED <<project, contents, generated, package, editor, deployer, failures>>

ReadSource(r) ==
  /\ At(r, "read_source")
  /\ req' = [req EXCEPT ![r].pc = "read_overrides",
                        ![r].gen = [source |-> contents[req[r].loaded.file],
                                    mode |-> req[r].loaded.mode, overrides |-> Never]]
  /\ UNCHANGED <<files, editor, deployer, failures>>

ReadOverrides(r) ==
  /\ At(r, "read_overrides")
  /\ req' = [req EXCEPT ![r].pc = "write", ![r].gen.overrides = overrides]
  /\ UNCHANGED <<files, editor, deployer, failures>>

(* Mutant: the last artifact is not written. *)
WriteArtifact_OneShort(r) ==
  /\ At(r, "write")
  /\ generated' = [generated EXCEPT ![Files[req[r].k]] = req[r].gen]
  /\ IF req[r].k + 1 < Len(Files) THEN req' = [req EXCEPT ![r].k = @ + 1]
     ELSE req' = [req EXCEPT ![r].k = 1, ![r].pc = "save"]
  /\ UNCHANGED <<project, contents, overrides, package, editor, deployer, failures>>

WriteArtifact(r) ==
  /\ At(r, "write")
  /\ generated' = [generated EXCEPT ![Files[req[r].k]] = req[r].gen]
  /\ IF req[r].k < Len(Files) THEN req' = [req EXCEPT ![r].k = @ + 1]
     ELSE req' = [req EXCEPT ![r].k = 1, ![r].pc = "save"]
  /\ UNCHANGED <<project, contents, overrides, package, editor, deployer, failures>>

(* Mutant: an import leaves the descriptor at the source file it loaded. *)
Saved_SourceKept(r) ==
  [req[r].loaded EXCEPT !.mode = IF req[r].op = "configure" THEN req[r].arg ELSE @,
                        !.last_build = IF req[r].op \in Building THEN req[r].gen ELSE @]

(* The project as it was loaded, with the request's own change. *)
Saved(r) ==
  [req[r].loaded EXCEPT !.file = IF req[r].op = "import" THEN req[r].arg.file ELSE @,
                        !.mode = IF req[r].op = "configure" THEN req[r].arg ELSE @,
                        !.last_build = IF req[r].op \in Building THEN req[r].gen ELSE @]

Save(r) ==
  /\ At(r, "save")
  /\ project' = Saved(r)
  /\ IF req[r].op = "deploy" THEN Goto(r, "load_again") ELSE Ends(r)
  /\ editor' = [editor EXCEPT !.file = IF req[r].op = "import" THEN r ELSE @,
                              !.mode = IF req[r].op = "configure" THEN r ELSE @]
  /\ UNCHANGED <<contents, overrides, generated, package, deployer, failures>>

-----------------------------------------------------------------------------
(* buildDeploymentPackage, after its build *)

LoadAgain(r) ==
  /\ \/ At(r, "load_again") /\ req' = [req EXCEPT ![r].loaded = project, ![r].pc = "remove"]
     \/ At(r, "load_for_digest") /\ req' = [req EXCEPT ![r].loaded = project, ![r].pc = "digest"]
  /\ UNCHANGED <<files, editor, deployer, failures>>

(* Mutant: an earlier package is written over, not removed. *)
RemovePackage_Not(r) ==
  /\ At(r, "remove")
  /\ Goto(r, "make")
  /\ UNCHANGED <<files, editor, deployer, failures>>

RemovePackage(r) ==
  /\ At(r, "remove")
  /\ package' = NoPackage
  /\ Goto(r, "make")
  /\ UNCHANGED <<project, contents, overrides, generated, editor, deployer, failures>>

MakePackage(r) ==
  /\ At(r, "make")
  /\ package' = [package EXCEPT !.exists = TRUE]
  /\ Goto(r, "copy")
  /\ UNCHANGED <<project, contents, overrides, generated, editor, deployer, failures>>

With(copies, name, value) ==
  [n \in DOMAIN copies \cup {name} |-> IF n = name THEN value ELSE copies[n]]

(* The artifacts and then the source; into a directory that another        *)
(* deployment has just removed, a copy fails.                              *)
CopyArtifact(r) ==
  LET last == req[r].k > Len(Files)
      name == IF last THEN "source" ELSE Files[req[r].k]
      value == IF last THEN contents[req[r].loaded.file] ELSE generated[name]
  IN /\ At(r, "copy")
     /\ IF package.exists
        THEN /\ package' = [package EXCEPT !.copies = With(@, name, value)]
             /\ req' = [req EXCEPT ![r].k = IF last THEN 1 ELSE @ + 1,
                                   ![r].pc = IF last THEN "inventory" ELSE @]
        ELSE Fails(r) /\ UNCHANGED package
     /\ UNCHANGED <<project, contents, overrides, generated, editor, deployer, failures>>

Inventory(r) ==
  /\ At(r, "inventory")
  /\ IF package.exists
     THEN req' = [req EXCEPT ![r].inventory = package.copies, ![r].pc = "load_for_digest"]
     ELSE Fails(r)
  /\ UNCHANGED <<files, editor, deployer, failures>>

ReadDigest(r) ==
  /\ At(r, "digest")
  /\ req' = [req EXCEPT ![r].digest = contents[req[r].loaded.file], ![r].pc = "manifest"]
  /\ UNCHANGED <<files, editor, deployer, failures>>

WriteManifest(r) ==
  /\ At(r, "manifest")
  /\ IF package.exists
     THEN /\ package' = [package EXCEPT !.manifest = [files |-> req[r].inventory,
                                                      source_digest |-> req[r].digest]]
          /\ Ends(r)
          /\ deployer' = r
     ELSE Fails(r) /\ UNCHANGED <<package, deployer>>
  /\ UNCHANGED <<project, contents, overrides, generated, editor, failures>>

(* A file operation fails, the review refuses the overrides, or the        *)
(* process ends: what was written stays.                                   *)
Fail(r) ==
  /\ r \in Running
  /\ failures < MaxFailures
  /\ failures' = failures + 1
  /\ Fails(r)
  /\ UNCHANGED <<files, editor, deployer>>

Step(r) ==
  \/ Load(r) \/ WriteSource(r) \/ WriteOverrides(r)
  \/ ReadSource(r) \/ ReadOverrides(r) \/ WriteArtifact(r) \/ Save(r)
  \/ LoadAgain(r) \/ RemovePackage(r) \/ MakePackage(r) \/ CopyArtifact(r)
  \/ Inventory(r) \/ ReadDigest(r) \/ WriteManifest(r)

Next ==
  \E r \in Requests :
    \/ \E op \in Editing \cup Building \cup {"overrides"} :
         \E arg \in Arguments(op) : Begin(r, op, arg)
    \/ Step(r)
    \/ Fail(r)

Spec == Init /\ [][Next]_vars

-----------------------------------------------------------------------------
Of(ops) == {r \in Requests : req[r].op \in ops}
Met(r, ops) == req[r].met \cap Of(ops) # {}

(* An imported source or a configured mode stays in the descriptor until   *)
(* it is edited again, unless a request that was under way together with   *)
(* the edit saved the descriptor it had loaded before it.  Saving          *)
(* overrides never undoes an edit, nor does a request that began later.    *)
EditsSurvive ==
  /\ editor.file # Nobody /\ project.file # req[editor.file].arg.file =>
       Met(editor.file, {"configure"} \cup Building)
  /\ editor.mode # Nobody /\ project.mode # req[editor.mode].arg =>
       Met(editor.mode, {"import"} \cup Building)

(* The artifacts are of one generation, the one last_build tells of,       *)
(* unless a build is writing or ended in the middle, two builds ran        *)
(* together, or an edit that ran together with a build saved the           *)
(* descriptor of before.                                                   *)
GenerationsAgree ==
  (\A f \in ToSet(Files) : generated[f] = project.last_build) \/
  \E r \in Of(Building) :
    req[r].pc \in {"write", "save", "failed"} \/ Met(r, Building \cup Editing)

(* A package with a manifest is what its manifest lists, all of it built   *)
(* from the source that the manifest's digest is of, unless an import, a   *)
(* build or another deployment ran together with the deployment, or a      *)
(* configuration that moved the descriptor back to the source file of      *)
(* before: one that ran together with yet another request that saves it.   *)
PackageDescribed ==
  \/ package.manifest = Never
  \/ Met(deployer, {"import"} \cup Building)
  \/ \E s \in req[deployer].met \cap Of({"configure"}) :
       (req[s].met \ {deployer}) \cap Of(Editing \cup Building) # {}
  \/ /\ package.manifest.files = package.copies
     /\ package.copies["source"] = package.manifest.source_digest
     /\ \A f \in ToSet(Files) :
          package.copies[f].source = package.manifest.source_digest
=============================================================================
