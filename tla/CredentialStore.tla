-------------------------- MODULE CredentialStore --------------------------
(* The credentials of one user, models/res_users.py: auth.json and api_key  *)
(* in <home>/.grok, written through <path>.tmp and os.replace, read by      *)
(* every send, and removed by logout.  The routes of controllers/main.py    *)
(* and the button of the preferences use it from requests that overlap and  *)
(* whose process may die between two system calls.  A file is an inode:     *)
(* whoever has it open still writes to it after it has been renamed.        *)
CONSTANTS
  Requests,     \* requests that change credentials (bounds the behaviour)
  Values,       \* logins and keys the user enters
  Fresh,        \* the login as the CLI refreshed it
  Shared,       \* the shared key, grokoo.api_key, or None
  Inodes,
  Overlap,      \* may two requests work on the same file at once?
  RemoveFails,  \* may os.remove fail on a file that exists?
  None, Empty, Torn

Files    == {"auth", "key"}
Contents == Values \cup {Fresh, Empty, Torn}

ASSUME StoreAssumption ==
  /\ Overlap \in BOOLEAN /\ RemoveFails \in BOOLEAN
  /\ None \notin Inodes \cup Contents \cup {"login"} /\ Shared \notin {Fresh, Empty, Torn}
  /\ {Fresh, Empty, Torn} \cap Values = {} /\ Fresh \notin {Empty, Torn}

VARIABLES
  path,   \* the inode a file's name stands for
  tmp,    \* the inode of <path>.tmp
  data,   \* what is in an inode
  files,  \* what a request works on,
  value,  \* what it writes there (None: it removes them),
  left,   \* and which of them are still to do
  pc,     \* how far it is
  fd,     \* the inode it has open
  turn,   \* a send: idle, checkKey, passed, envKey, launched
  cred    \* what its CLI got: "login", a key, or None

disk     == <<path, tmp, data>>
requests == <<files, value, left, pc, fd>>
vars     == <<disk, requests, turn, cred>>

Phases == {"idle", "open", "write", "replace", "remove", "return", "done", "failed", "dead"}

TypeOK ==
  /\ path \in [Files -> Inodes \cup {None}] /\ tmp \in [Files -> Inodes \cup {None}]
  /\ data \in [Inodes -> Contents]
  /\ files \in [Requests -> SUBSET Files] /\ left \in [Requests -> SUBSET Files]
  /\ value \in [Requests -> Values \cup {None}] /\ pc \in [Requests -> Phases]
  /\ fd \in [Requests -> Inodes \cup {None}]
  /\ \A r \in Requests : fd[r] # None <=> pc[r] = "write"
  /\ turn \in {"idle", "checkKey", "passed", "envKey", "launched"}
  /\ cred \in Contents \cup {"login", Shared, None}

Init ==
  /\ path = [f \in Files |-> None] /\ tmp = path
  /\ data = [i \in Inodes |-> Empty]
  /\ files = [r \in Requests |-> {}] /\ left = files
  /\ value = [r \in Requests |-> None]
  /\ pc = [r \in Requests |-> "idle"] /\ fd = [r \in Requests |-> None]
  /\ turn = "idle" /\ cred = None

-----------------------------------------------------------------------------
(* Requests.                                                                *)
Busy(r)  == pc[r] \notin {"idle", "done", "failed", "dead"}
Used(i)  == (\E f \in Files : i \in {path[f], tmp[f]}) \/ \E r \in Requests : fd[r] = i
Goto(r, p) == pc' = [pc EXCEPT ![r] = p]

(* A handler has validated its argument: import, set key (v), clear the key *)
(* (None), logout (None, both files).  Without Overlap it does not meet     *)
(* another on its file: one view asks for one change at a time (authBusy).  *)
Begin(r, fs, v) ==
  /\ pc[r] = "idle"
  /\ Overlap \/ \A q \in Requests : Busy(q) => files[q] \cap fs = {}
  /\ files' = [files EXCEPT ![r] = fs] /\ left' = [left EXCEPT ![r] = fs]
  /\ value' = [value EXCEPT ![r] = v]
  /\ Goto(r, IF v = None THEN "remove" ELSE "open")
  /\ UNCHANGED <<disk, fd, turn, cred>>

Import(r) == \E v \in Values : Begin(r, {"auth"}, v)
SetKey(r) == \E v \in Values \cup {None} : Begin(r, {"key"}, v)
Logout(r) == Begin(r, Files, None)

(* Slip: the file itself is opened for writing.                             *)
OpenInPlace(r) ==
  /\ pc[r] = "open" /\ Goto(r, "write")
  /\ \E f \in files[r], i \in Inodes :
       /\ IF path[f] = None THEN ~Used(i) ELSE i = path[f]
       /\ path' = [path EXCEPT ![f] = i] /\ tmp' = [tmp EXCEPT ![f] = i]
       /\ data' = [data EXCEPT ![i] = Empty] /\ fd' = [fd EXCEPT ![r] = i]
  /\ UNCHANGED <<files, value, left, turn, cred>>

(* Slip: no O_TRUNC.                                                        *)
OpenKeeps(r) ==
  /\ pc[r] = "open" /\ Goto(r, "write")
  /\ \E f \in files[r], i \in Inodes :
       /\ IF tmp[f] = None THEN ~Used(i) ELSE i = tmp[f]
       /\ tmp' = [tmp EXCEPT ![f] = i]
       /\ data' = [data EXCEPT ![i] = IF tmp[f] = None THEN Empty ELSE @]
       /\ fd' = [fd EXCEPT ![r] = i]
  /\ UNCHANGED <<path, files, value, left, turn, cred>>

(* _grokoo_write_file opens <path>.tmp, perhaps the leftover of a crash or  *)
(* the file of another request, and truncates it.                           *)
Open(r) ==
  /\ pc[r] = "open" /\ Goto(r, "write")
  /\ \E f \in files[r], i \in Inodes :
       /\ IF tmp[f] = None THEN ~Used(i) ELSE i = tmp[f]
       /\ tmp' = [tmp EXCEPT ![f] = i]
       /\ data' = [data EXCEPT ![i] = Empty] /\ fd' = [fd EXCEPT ![r] = i]
  /\ UNCHANGED <<path, files, value, left, turn, cred>>

(* Writing starts at the front: what was there and is longer shows behind.  *)
Overwritten(r) ==
  {value[r]} \cup IF data[fd[r]] \in {Empty, value[r]} THEN {} ELSE {Torn}

(* Slip: the file is not closed.                                            *)
WriteOpen(r) ==
  /\ pc[r] = "write" /\ Goto(r, "replace")
  /\ \E c \in Overwritten(r) : data' = [data EXCEPT ![fd[r]] = c]
  /\ UNCHANGED <<path, tmp, files, value, left, fd, turn, cred>>

(* f.write, and the end of the with statement closes the file.              *)
Write(r) ==
  /\ pc[r] = "write" /\ Goto(r, "replace")
  /\ \E c \in Overwritten(r) : data' = [data EXCEPT ![fd[r]] = c]
  /\ fd' = [fd EXCEPT ![r] = None]
  /\ UNCHANGED <<path, tmp, files, value, left, turn, cred>>

(* os.replace raises if another request has renamed the file before.        *)
Replace(r) ==
  /\ pc[r] = "replace" /\ left' = [left EXCEPT ![r] = {}]
  /\ \E f \in files[r] :
       \/ /\ tmp[f] # None /\ Goto(r, "return")
          /\ path' = [path EXCEPT ![f] = tmp[f]] /\ tmp' = [tmp EXCEPT ![f] = None]
       \/ tmp[f] = None /\ Goto(r, "failed") /\ UNCHANGED <<path, tmp>>
  /\ UNCHANGED <<data, files, value, fd, turn, cred>>

(* Slip: one try around both removals: a missing file ends them.            *)
RemoveStops(r) ==
  /\ pc[r] = "remove"
  /\ LET f == IF "auth" \in left[r] THEN "auth" ELSE "key" IN
       /\ left' = [left EXCEPT ![r] = @ \ {f}]
       /\ Goto(r, IF left'[r] = {} \/ path[f] = None THEN "return" ELSE "remove")
       /\ path' = [path EXCEPT ![f] = None]
  /\ UNCHANGED <<tmp, data, files, value, fd, turn, cred>>

(* os.remove of auth.json, then of api_key; any OSError is ignored.         *)
Remove(r) ==
  /\ pc[r] = "remove"
  /\ LET f == IF "auth" \in left[r] THEN "auth" ELSE "key" IN
       /\ left' = [left EXCEPT ![r] = @ \ {f}]
       /\ Goto(r, IF left'[r] = {} THEN "return" ELSE "remove")
       /\ \/ path' = [path EXCEPT ![f] = None]
          \/ RemoveFails /\ UNCHANGED path
  /\ UNCHANGED <<tmp, data, files, value, fd, turn, cred>>

Return(r) ==
  /\ pc[r] = "return" /\ Goto(r, "done")
  /\ UNCHANGED <<disk, files, value, left, fd, turn, cred>>

(* The Odoo worker process that serves the request dies.                    *)
Crash(r) ==
  /\ Busy(r) /\ Goto(r, "dead")
  /\ left' = [left EXCEPT ![r] = {}] /\ fd' = [fd EXCEPT ![r] = None]
  /\ UNCHANGED <<disk, files, value, turn, cred>>

-----------------------------------------------------------------------------
(* Sends.  A torn login is no JSON.                                         *)
HasLogin == path["auth"] # None /\ data[path["auth"]] \notin {Empty, Torn}
ApiKey   == IF path["key"] # None /\ data[path["key"]] # Empty
            THEN data[path["key"]] ELSE Shared

(* _grokoo_is_authenticated, as send_message calls it: login, then key.     *)
CheckLogin ==
  /\ turn = "idle" /\ turn' = IF HasLogin THEN "passed" ELSE "checkKey"
  /\ UNCHANGED <<disk, requests, cred>>

CheckKey ==
  /\ turn = "checkKey" /\ turn' = IF ApiKey # None THEN "passed" ELSE "idle"
  /\ UNCHANGED <<disk, requests, cred>>

(* _grokoo_auth_env, later in the same send, reads them again.              *)
EnvLogin ==
  /\ turn = "passed"
  /\ \/ HasLogin /\ turn' = "launched" /\ cred' = "login"
     \/ ~HasLogin /\ turn' = "envKey" /\ UNCHANGED cred
  /\ UNCHANGED <<disk, requests>>

EnvKey ==
  /\ turn = "envKey" /\ turn' = "launched" /\ cred' = ApiKey
  /\ UNCHANGED <<disk, requests>>

(* "The CLI refreshes the token in place", taken to be one step, and also   *)
(* when the user has logged out meanwhile.                                  *)
Refresh ==
  /\ turn = "launched" /\ cred = "login"
  /\ \E i \in Inodes :
       /\ ~Used(i) /\ path' = [path EXCEPT !["auth"] = i]
       /\ data' = [data EXCEPT ![i] = Fresh]
  /\ UNCHANGED <<tmp, requests, turn, cred>>

CliExit ==
  /\ turn = "launched" /\ turn' = "idle" /\ cred' = None
  /\ UNCHANGED <<disk, requests>>

-----------------------------------------------------------------------------
Request(r) ==
  \/ Import(r) \/ SetKey(r) \/ Logout(r)
  \/ Open(r) \/ Write(r) \/ Replace(r) \/ Remove(r) \/ Return(r) \/ Crash(r)

Turn == CheckLogin \/ CheckKey \/ EnvLogin \/ EnvKey \/ Refresh \/ CliExit
Next == Turn \/ \E r \in Requests : Request(r)
Spec == Init /\ [][Next]_vars

(***************************************************************************)
(* Properties                                                              *)
(***************************************************************************)
Register == INSTANCE CredentialRegister WITH
  reg    <- [f \in Files |-> IF path[f] = None THEN None ELSE data[path[f]]],
  todo   <- left,
  status <- [r \in Requests |-> IF pc[r] = "idle" THEN "idle"
                                ELSE IF Busy(r) THEN "called" ELSE "over"],
  Refreshed <- "auth"

(* "Atomically write a per-user credential file", and its removal: each    *)
(* credential is a register that a request changes in one step, with the   *)
(* value it was given, and that a crash leaves old or new, never empty and *)
(* never mixed with what an earlier crash left in the temporary file; a    *)
(* request that returns has changed all it had to.                         *)
ImplementsRegister == Register!Spec

(* "The effective xAI API key for this user: the per-user key if set, else *)
(* the shared" one: a CLI never gets the shared key, or a piece of a key,  *)
(* because the user's own was being written.                               *)
KeyAsSet ==
  [][EnvKey => /\ cred' = IF path["key"] = None THEN Shared ELSE data[path["key"]]
               /\ cred' \notin {Empty, Torn}]_vars

(* A send checks the credentials and reads them again: its CLI starts with *)
(* none only if the user began to remove one.                              *)
NoneOnlyAfterRemoval ==
  turn = "launched" /\ cred = None =>
    \E r \in Requests : files[r] # {} /\ value[r] = None

(* The next three are what comments say; the code does not keep to them.    *)
(*                                                                          *)
(* send_message: one has "to connect Grok before chatting": a CLI has       *)
(* credentials.                                                             *)
LaunchedWithCredentials == turn = "launched" => cred # None

(* _grokoo_auth_env: "if auth.json exists we do NOT set XAI_API_KEY".       *)
LoginTakesPrecedence == [][EnvKey => path["auth"] = None]_vars

(* _grokoo_logout "forces re-connection": what it removed does not come     *)
(* back while a CLI still works with it.                                    *)
LogoutHolds == [][Refresh => path["auth"] # None]_vars
=============================================================================
