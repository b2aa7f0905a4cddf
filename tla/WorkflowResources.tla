------------------------- MODULE WorkflowResources --------------------------
(***************************************************************************)
(* FileSystemResourceManager and the working directories of                *)
(* WorkflowContext.  The table of resources is locked only to look one up, *)
(* add one or erase one: directories are made and removed between these    *)
(* steps, and threads interleave there.  Ids are paths.                    *)
(***************************************************************************)
EXTENDS Callers

VARIABLES
  resources,   \* resources_: the path of each resource by its number
  created,     \* resources made so far
  directories, \* the paths that exist
  workingDir,  \* working_dir_resource_id of the context of each client, 0 for none
  doing,       \* what each client is in the middle of
  failed       \* history: paths whose removal failed

own  == <<resources, created, directories, workingDir, doing, failed>>
vars == <<calls, now, own>>

\* "create" path, for its own context or not; "remove" the resources of todo one by one.
Idle == [step |-> "idle"]

Init ==
  /\ CallersInit
  /\ resources = {} /\ created = 0 /\ directories = {}
  /\ workingDir = [c \in Clients |-> 0]
  /\ doing = [c \in Clients |-> Idle]
  /\ failed = {}

Goes(c, what) == doing' = [doing EXCEPT ![c] = what]

-----------------------------------------------------------------------------
(* createDirectory() and setWorkingDir().                                  *)

\* createDirectories(): nothing to do for a path that exists.
CreateDirectory(c, path, mine) ==
  /\ Called /\ doing[c] = Idle
  /\ directories' = directories \cup {path}
  /\ Goes(c, [step |-> "create", path |-> path, mine |-> mine])
  /\ UNCHANGED <<resources, created, workingDir, failed>>

\* Another working directory of the context is not cleaned up, only forgotten.
Register(c) ==
  /\ doing[c].step = "create"
  /\ created' = created + 1
  /\ resources' = resources \cup {[id |-> created + 1, path |-> doing[c].path]}
  /\ workingDir' = IF doing[c].mine THEN [workingDir EXCEPT ![c] = created + 1] ELSE workingDir
  /\ Goes(c, Idle)
  /\ UNCHANGED <<calls, now, directories, failed>>

-----------------------------------------------------------------------------
(* cleanup() and cleanupAll().                                             *)

\* The resources to clean up are collected under the lock: all of them, one by its
\* number, or the one of the context.
StartCleanup(c, todo) ==
  /\ Called /\ doing[c] = Idle
  /\ Goes(c, [step |-> "remove", todo |-> todo])
  /\ UNCHANGED <<resources, created, directories, workingDir, failed>>

CleanupAll(c) == StartCleanup(c, resources)

Cleanup(c, resource) == StartCleanup(c, {resource})

CleanupContext(c) ==
  \E resource \in resources : resource.id = workingDir[c] /\ Cleanup(c, resource)

\* getResource(): what another thread erased in the meantime is passed over.
LookUp(c) ==
  /\ doing[c].step = "remove"
  /\ \E resource \in doing[c].todo \cap resources :
       Goes(c, [step |-> "unlink", todo |-> doing[c].todo, resource |-> resource])
  /\ UNCHANGED <<calls, now, resources, created, directories, workingDir, failed>>

\* Mutant: the resource is erased and its directory stays.
RemoveDirectoryLate(c) ==
  /\ doing[c].step = "unlink"
  /\ resources' = resources \ {doing[c].resource}
  /\ Goes(c, [doing[c] EXCEPT !.step = "erase"])
  /\ UNCHANGED <<calls, now, created, directories, workingDir, failed>>

\* removeDirectory(): whether it succeeds is not looked at.
RemoveDirectory(c) ==
  /\ doing[c].step = "unlink"
  /\ \/ directories' = directories \ {doing[c].resource.path} /\ UNCHANGED failed
     \/ UNCHANGED directories /\ failed' = failed \cup {doing[c].resource.path}
  /\ Goes(c, [doing[c] EXCEPT !.step = "erase"])
  /\ UNCHANGED <<calls, now, resources, created, workingDir>>

EraseResource(c) ==
  /\ doing[c].step = "erase"
  /\ resources' = resources \ {doing[c].resource}
  /\ Goes(c, [step |-> "remove", todo |-> doing[c].todo \ {doing[c].resource}])
  /\ UNCHANGED <<calls, now, created, directories, workingDir, failed>>

CleanupEnds(c) ==
  /\ doing[c].step = "remove"
  /\ doing[c].todo \cap resources = {}
  /\ Goes(c, Idle)
  /\ UNCHANGED <<calls, now, resources, created, directories, workingDir, failed>>

-----------------------------------------------------------------------------
ClientSteps(c) == Register(c) \/ LookUp(c) \/ RemoveDirectory(c) \/ EraseResource(c) \/ CleanupEnds(c)

Next ==
  \E c \in Clients :
    \/ \E path \in Ids, mine \in BOOLEAN : CreateDirectory(c, path, mine)
    \/ CleanupAll(c) \/ CleanupContext(c)
    \/ \E resource \in resources : Cleanup(c, resource)
    \/ ClientSteps(c)

Spec == Init /\ [][Next]_vars

-----------------------------------------------------------------------------
Resource == [id : Nat, path : Ids]

Doing(c) ==
  \/ doing[c] = Idle
  \/ /\ doing[c].step = "create"
     /\ doing[c].path \in Ids /\ doing[c].mine \in BOOLEAN
  \/ /\ doing[c].step \in {"remove", "unlink", "erase"}
     /\ \A resource \in doing[c].todo : resource \in Resource
     /\ doing[c].step # "remove" => doing[c].resource \in doing[c].todo

TypeOK ==
  /\ CallersTypeOK
  /\ \A resource \in resources : resource \in Resource
  /\ created \in Nat
  /\ directories \subseteq Ids
  /\ workingDir \in [Clients -> Nat]
  /\ \A c \in Clients : Doing(c)
  /\ failed \subseteq Ids

\* A directory that was made stays in the table, where cleanupAll() finds it, until it is
\* removed: only a directory that could not be removed is left behind.
NothingLeaks ==
  \A path \in directories :
    \/ \E resource \in resources : resource.path = path
    \/ \E c \in Clients : doing[c].step = "create" /\ doing[c].path = path
    \/ path \in failed

=============================================================================
