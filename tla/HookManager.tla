---------------------------- MODULE HookManager ----------------------------
(***************************************************************************)
(* The hook files of pb_hooks/: services/hook_manager.py, the requests of  *)
(* api/hooks.py and what app.py does with both at startup.                 *)
(*                                                                         *)
(* The manager runs on the event loop and never awaits, so each of its     *)
(* operations is one step; a request that changes a setting goes on to     *)
(* read and write its row (_persist_hooks_runtime), and other steps come   *)
(* in between.  A file binds one handler, under an id of its own, so a     *)
(* loop over the files treats each of them apart: what the step for one    *)
(* does never depends on another.                                          *)
(***************************************************************************)
EXTENDS Integers, FiniteSets

CONSTANTS
    Files,        \* hook files
    Requests,     \* PATCH requests
    MaxBindings,  \* bound: handlers of one file in the registry
    Nothing       \* no file, no state, no request, no value

Ids == Files \X (1 .. MaxBindings)

\* What a file does when it is loaded: it binds a handler, it binds one and then
\* fails, it binds one and adds a route.
Contents == {"binds", "breaks", "routes"}

VARIABLES
    dir,      \* the directory: content, and whether it changed since its load
    files,    \* _files
    bound,    \* the handlers of the registry, by id
    disabled, \* _disabled_hooks
    served,   \* the files whose routes the application serves
    saved,    \* the disabled hooks of the hooks_runtime row
    req,      \* PATCH requests
    strays,   \* history: handlers no state knows of any more
    unsaved   \* history: a request failed to save, or two overlapped

vars == <<dir, files, bound, disabled, served, saved, req, strays, unsaved>>

Hook(f, c) == [file |-> f, content |-> c]
State(enabled, status, functions) == [enabled |-> enabled, status |-> status, functions |-> functions]

Source == [content : Contents, touched : BOOLEAN]
Handler == [file : Files, content : Contents]
FileState == [enabled : BOOLEAN, functions : SUBSET Ids,
              status : {"loaded", "error", "disabled", "unsupported_for_hot_reload"}]
Request == [disabled : (SUBSET Files) \cup {Nothing}, current : (SUBSET Files) \cup {Nothing}]

TypeOK ==
    /\ dir \in [Files -> Source \cup {Nothing}]
    /\ files \in [Files -> FileState \cup {Nothing}]
    /\ bound \in [Ids -> Handler \cup {Nothing}]
    /\ disabled \subseteq Files /\ served \subseteq Files /\ strays \subseteq Ids
    /\ saved \subseteq Files /\ unsaved \in BOOLEAN
    /\ req \in [Requests -> Request \cup {Nothing}]

-----------------------------------------------------------------------------
(* The manager: an operator takes and returns a record of what it changes. *)

Manager == [dir |-> dir, files |-> files, bound |-> bound, disabled |-> disabled,
            served |-> served, strays |-> strays, full |-> FALSE]

(* No step takes more handlers than MaxBindings. *)
Becomes(m) ==
    /\ ~m.full
    /\ dir' = m.dir /\ files' = m.files /\ bound' = m.bound
    /\ disabled' = m.disabled /\ served' = m.served /\ strays' = m.strays

(* Where a loop over the files ends, done[f] being where its step for f    *)
(* does: a step changes its own file and the handlers under its ids.       *)
EachFile(m, done) ==
    [dir |-> [f \in Files |-> done[f].dir[f]],
     files |-> [f \in Files |-> done[f].files[f]],
     bound |-> [b \in Ids |-> done[b[1]].bound[b]],
     disabled |-> {f \in Files : f \in done[f].disabled},
     served |-> {f \in Files : f \in done[f].served},
     strays |-> m.strays \cup UNION {done[f].strays : f \in Files},
     full |-> m.full \/ \E f \in Files : done[f].full]

FreeIds(m, f) == {b \in Ids : b[1] = f /\ m.bound[b] = Nothing}
discover_files(m) == {f \in Files : m.dir[f] # Nothing}

(* Routes, groups of routes and middleware are added until the application *)
(* is made; from then on (frozen) the attempt is only noted.               *)
_wrap_route_registration(routes, f, frozen) ==
    IF frozen THEN routes ELSE routes \cup {f}

(* The functions of a state are forgotten before the file runs, and those  *)
(* that a failing file bound are never recorded.                           *)
_load_file(m, f, frozen) ==
    LET c == IF m.dir[f] = Nothing THEN "gone" ELSE m.dir[f].content
        id == CHOOSE b \in FreeIds(m, f) : TRUE
        status == CASE c \in {"gone", "breaks"} -> "error"
                    [] c = "routes" /\ frozen -> "unsupported_for_hot_reload"
                    [] OTHER -> "loaded"
        forgotten == [m EXCEPT !.strays = @ \cup m.files[f].functions]
    IN  IF c = "gone" THEN [forgotten EXCEPT !.files[f] = State(TRUE, status, {})]
        ELSE IF FreeIds(m, f) = {} THEN [m EXCEPT !.full = TRUE]
        ELSE [forgotten EXCEPT
                !.dir[f].touched = FALSE,
                !.bound[id] = Hook(f, c),
                !.served = IF c = "routes" THEN _wrap_route_registration(@, f, frozen) ELSE @,
                !.files[f] = State(TRUE, status, IF c = "breaks" THEN {} ELSE {id}),
                !.strays = IF c = "breaks" THEN @ \cup {id} ELSE @]

_unbind_file(m, f) ==
    [m EXCEPT !.bound = [b \in Ids |-> IF b \in m.files[f].functions THEN Nothing ELSE @[b]],
              !.files[f].functions = {}]

\* Mutant: the handlers are forgotten and stay bound.
DisableForgets(m, f) ==
    [m EXCEPT !.files[f] = State(FALSE, "disabled", {}), !.disabled = @ \cup {f}]

disable_hook(m, f) ==
    [_unbind_file(m, f) EXCEPT !.files[f] = State(FALSE, "disabled", {}), !.disabled = @ \cup {f}]

enable_hook(m, f) ==
    _load_file([m EXCEPT !.files[f].enabled = TRUE, !.disabled = @ \ {f}], f, TRUE)

reload_file(m, f) ==
    IF m.files[f].enabled THEN _load_file(_unbind_file(m, f), f, TRUE)
    ELSE [m EXCEPT !.files[f].status = "disabled"]

Adopt(m, f, frozen) ==
    IF f \in m.disabled THEN [m EXCEPT !.files[f] = State(FALSE, "disabled", {})]
    ELSE _load_file([m EXCEPT !.files[f] = State(TRUE, "loaded", {})], f, frozen)

Forget(m, f) ==
    [_unbind_file(m, f) EXCEPT !.files[f] = Nothing, !.disabled = @ \ {f}]

RescanFile(m, f) ==
    CASE m.dir[f] = Nothing /\ m.files[f] # Nothing -> Forget(m, f)
      [] m.dir[f] # Nothing /\ m.files[f] = Nothing -> Adopt(m, f, TRUE)
      [] m.dir[f] # Nothing /\ m.files[f] # Nothing /\ m.files[f].enabled /\ m.dir[f].touched ->
            _load_file(_unbind_file(m, f), f, TRUE)
      [] OTHER -> m

initial_load(m) ==
    EachFile(m, [f \in Files |-> IF f \in discover_files(m) THEN Adopt(m, f, FALSE) ELSE m])

-----------------------------------------------------------------------------
(* Startup, and a restart at any time: the settings are read after the     *)
(* files were loaded.                                                      *)

Fresh(d) == [dir |-> d, files |-> [f \in Files |-> Nothing], bound |-> [b \in Ids |-> Nothing],
             disabled |-> {}, served |-> {}, strays |-> {}, full |-> FALSE]

Restored(m) ==
    EachFile(m, [f \in Files |-> IF f \in saved /\ m.files[f] # Nothing THEN disable_hook(m, f) ELSE m])

Init ==
    /\ saved = {} /\ unsaved = FALSE
    /\ req = [r \in Requests |-> Nothing]
    /\ \E d \in [Files -> [content : Contents, touched : {FALSE}] \cup {Nothing}] :
          LET m == initial_load(Fresh(d))
          IN  /\ ~m.full /\ dir = m.dir /\ files = m.files /\ bound = m.bound
              /\ disabled = m.disabled /\ served = m.served /\ strays = m.strays

Restart ==
    /\ Becomes(Restored(initial_load(Fresh(dir))))
    /\ req' = [r \in Requests |-> Nothing]
    /\ unsaved' = FALSE
    /\ UNCHANGED saved

(* Someone edits the directory. *)
EditFile(f) ==
    /\ \E c \in Contents : dir' = [dir EXCEPT ![f] = [content |-> c, touched |-> TRUE]]
    /\ UNCHANGED <<files, bound, disabled, served, saved, req, strays, unsaved>>

RemoveFile(f) ==
    /\ dir[f] # Nothing
    /\ dir' = [dir EXCEPT ![f] = Nothing]
    /\ UNCHANGED <<files, bound, disabled, served, saved, req, strays, unsaved>>

(* The watcher's poll and POST /rescan. *)
rescan ==
    /\ Becomes(EachFile(Manager, [f \in Files |-> RescanFile(Manager, f)]))
    /\ UNCHANGED <<saved, req, unsaved>>

reload_hook(f) ==
    /\ files[f] # Nothing
    /\ Becomes(reload_file(Manager, f))
    /\ UNCHANGED <<saved, req, unsaved>>

-----------------------------------------------------------------------------
(* PATCH requests.  A request carries what it saves; the row it read stands *)
(* for the rest.  update_hooks_runtime carries the other setting alone.     *)

Persist(r, d) ==
    /\ req[r] = Nothing
    /\ req' = [req EXCEPT ![r] = [disabled |-> d, current |-> Nothing]]
    /\ unsaved' = (unsaved \/ \E o \in Requests : req[o] # Nothing)
    /\ UNCHANGED saved

update_hook(r, f) ==
    /\ files[f] # Nothing
    /\ \/ Becomes(enable_hook(Manager, f))
       \/ Becomes(disable_hook(Manager, f))
    /\ Persist(r, disabled')

update_hooks_runtime(r) ==
    /\ Persist(r, Nothing)
    /\ UNCHANGED <<dir, files, bound, disabled, served, strays>>

_get_hooks_runtime_value(r) ==
    /\ req[r] # Nothing /\ req[r].current = Nothing
    /\ req' = [req EXCEPT ![r].current = saved]
    /\ UNCHANGED <<dir, files, bound, disabled, served, saved, strays, unsaved>>

_persist_hooks_runtime(r) ==
    /\ req[r] # Nothing /\ req[r].current # Nothing
    /\ saved' = IF req[r].disabled = Nothing THEN req[r].current ELSE req[r].disabled
    /\ req' = [req EXCEPT ![r] = Nothing]
    /\ UNCHANGED <<dir, files, bound, disabled, served, strays, unsaved>>

PersistFails(r) ==
    /\ req[r] # Nothing
    /\ req' = [req EXCEPT ![r] = Nothing]
    /\ unsaved' = TRUE
    /\ UNCHANGED <<dir, files, bound, disabled, served, saved, strays>>

Next ==
    \/ Restart \/ rescan
    \/ \E f \in Files : EditFile(f) \/ RemoveFile(f) \/ reload_hook(f) \/ \E r \in Requests : update_hook(r, f)
    \/ \E r \in Requests :
          \/ update_hooks_runtime(r) \/ _get_hooks_runtime_value(r)
          \/ _persist_hooks_runtime(r) \/ PersistFails(r)

Spec == Init /\ [][Next]_vars

-----------------------------------------------------------------------------
\* However files are edited, removed, reloaded, disabled and enabled (rescan,
\* reload_file, disable_hook): a handler that is bound belongs to an enabled file
\* that knows it, so that the next change or disabling takes it away, or was left
\* by a load that failed half-way or by enabling an enabled hook; and what a file
\* knows is bound.
HandlersAreOwned ==
    /\ \A b \in Ids : bound[b] # Nothing =>
          LET s == files[bound[b].file]
          IN  \/ b \in strays
              \/ s # Nothing /\ s.enabled /\ b \in s.functions
    /\ \A f \in Files : files[f] # Nothing =>
          \A b \in files[f].functions : bound[b] # Nothing /\ bound[b].file = f

\* A file that is reported as loaded has its routes served (_load_file): the ones
\* it gained since startup make it "unsupported_for_hot_reload".
LoadedIsServed ==
    \A f \in Files : files[f] # Nothing /\ files[f].status = "loaded" =>
        \A b \in files[f].functions : bound[b].content = "routes" => f \in served

\* A hook that is disabled stays disabled across a restart, whatever was saved
\* since (_persist_hooks_runtime), unless saving failed or two requests overlapped.
DisabledSurvives ==
    ~unsaved /\ (\A r \in Requests : req[r] = Nothing) =>
        disabled \subseteq saved
=============================================================================
