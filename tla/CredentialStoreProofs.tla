----------------------- MODULE CredentialStoreProofs -----------------------
(* For any number of requests, values and inodes, provided no two requests  *)
(* work on the same file at once: the credential files are registers, and a *)
(* send reads them whole.                                                   *)
EXTENDS CredentialStore, TLAPS

(* A request writes one file, which is all it has to do; a removing one has *)
(* still something to remove; one that returns has not.                     *)
JobInv ==
  \A r \in Requests :
    /\ pc[r] \in {"open", "write", "replace"} =>
         value[r] \in Values /\ left[r] = files[r] /\ \E f \in Files : files[r] = {f}
    /\ pc[r] = "remove" => value[r] = None /\ left[r] # {} /\ left[r] \subseteq files[r]
    /\ pc[r] = "return" => left[r] = {}
    /\ pc[r] = "idle" => files[r] = {}

(* Requests at work do not share a file.                                    *)
ApartInv ==
  \A q, r \in Requests : q # r /\ Busy(q) /\ Busy(r) => files[q] \cap files[r] = {}

(* No inode has two names.                                                  *)
NameInv ==
  \A f, g \in Files :
    /\ tmp[f] # None => tmp[f] # path[g]
    /\ f # g => (tmp[f] # None => tmp[f] # tmp[g]) /\ (path[f] # None => path[f] # path[g])

(* The temporary file is empty when it is opened and holds the value when   *)
(* it is renamed; a file that has its name is whole.                        *)
DataInv ==
  /\ \A r \in Requests, f \in Files : f \in files[r] =>
       /\ pc[r] = "write" => tmp[f] = fd[r] /\ data[fd[r]] = Empty
       /\ pc[r] = "replace" => tmp[f] # None /\ data[tmp[f]] = value[r]
  /\ \A f \in Files : path[f] # None => data[path[f]] \in Values \cup {Fresh}

IInv == TypeOK /\ JobInv /\ ApartInv /\ NameInv /\ DataInv

USE DEF Files, Phases, Contents

LEMMA InitInv == Init => IInv
BY StoreAssumption DEF Init, IInv, TypeOK, JobInv, ApartInv, NameInv, DataInv, Busy

(* What a request may have begun with.                                      *)
LEMMA BeginInv ==
  ASSUME ~Overlap, IInv, NEW r \in Requests, NEW fs \in SUBSET Files, NEW v \in Values \cup {None},
         fs # {}, v \in Values => \E f \in Files : fs = {f}, Begin(r, fs, v)
  PROVE  IInv'
<1> USE StoreAssumption DEF IInv, Begin, Goto, disk, Busy
<1>1. TypeOK'
  BY DEF TypeOK
<1>2. JobInv'
  BY DEF TypeOK, JobInv
<1>3. ApartInv'
  BY DEF TypeOK, ApartInv
<1>4. NameInv'
  BY DEF TypeOK, NameInv
<1>5. DataInv'
  BY DEF TypeOK, DataInv
<1> QED BY <1>1, <1>2, <1>3, <1>4, <1>5

LEMMA OpenInv ==
  ASSUME IInv, NEW r \in Requests, Open(r)
  PROVE  IInv'
<1>1. PICK f \in files[r], i \in Inodes :
        /\ IF tmp[f] = None THEN ~Used(i) ELSE i = tmp[f]
        /\ tmp' = [tmp EXCEPT ![f] = i]
        /\ data' = [data EXCEPT ![i] = Empty] /\ fd' = [fd EXCEPT ![r] = i]
  BY DEF Open
<1>2. f \in Files /\ files[r] = {f} /\ pc[r] = "open" /\ Busy(r)
  BY DEF Open, IInv, JobInv, TypeOK, Busy
<1>3. (\A g \in Files : i # path[g]) /\ (\A g \in Files : g # f => i # tmp[g])
  BY <1>1, <1>2, StoreAssumption DEF IInv, NameInv, Used, TypeOK
<1> USE DEF Open, Goto, Busy
<1>4. TypeOK'
  BY <1>1, <1>2, StoreAssumption DEF IInv, TypeOK
<1>5. JobInv'
  BY <1>2 DEF IInv, TypeOK, JobInv
<1>6. ApartInv'
  BY <1>2 DEF IInv, TypeOK, ApartInv
<1>7. NameInv'
  BY <1>1, <1>2, <1>3, StoreAssumption DEF IInv, TypeOK, NameInv
<1>8. ASSUME NEW q \in Requests, NEW g \in Files, g \in files'[q]
      PROVE  /\ pc'[q] = "write" => tmp'[g] = fd'[q] /\ data'[fd'[q]] = Empty
             /\ pc'[q] = "replace" => tmp'[g] # None /\ data'[tmp'[g]] = value'[q]
  <2>1. CASE q = r
    BY <1>1, <1>2, <1>8, <2>1 DEF IInv, TypeOK
  <2>2. CASE q # r
    <3>1. pc[q] \in {"write", "replace"} => g # f
      BY <1>2, <1>8, <2>2 DEF IInv, ApartInv
    <3>2. pc[q] = "write" => fd[q] # i
      BY <1>3, <1>8, <3>1 DEF IInv, DataInv
    <3> QED BY <1>1, <1>2, <1>3, <1>8, <2>2, <3>1, <3>2 DEF IInv, TypeOK, DataInv
  <2> QED BY <2>1, <2>2
<1>9. ASSUME NEW g \in Files, path'[g] # None
      PROVE  data'[path'[g]] \in Values \cup {Fresh}
  BY <1>1, <1>3, <1>9 DEF IInv, TypeOK, DataInv
<1>10. DataInv'
  BY <1>8, <1>9 DEF DataInv
<1> QED BY <1>4, <1>5, <1>6, <1>7, <1>10 DEF IInv

LEMMA WriteInv ==
  ASSUME IInv, NEW r \in Requests, Write(r)
  PROVE  IInv'
<1>1. PICK f \in Files : files[r] = {f} /\ value[r] \in Values
  BY DEF Write, IInv, JobInv
<1>2. /\ pc[r] = "write" /\ tmp[f] = fd[r] /\ data[fd[r]] = Empty
      /\ fd[r] \in Inodes /\ fd[r] # None /\ Busy(r)
  BY <1>1, StoreAssumption DEF Write, IInv, DataInv, TypeOK, Busy
<1>3. data' = [data EXCEPT ![fd[r]] = value[r]]
  BY <1>2 DEF Write, Overwritten
<1>4. (\A g \in Files : fd[r] # path[g]) /\ (\A g \in Files : g # f => fd[r] # tmp[g])
  BY <1>2 DEF IInv, NameInv
<1> USE DEF Write, Goto, Busy
<1>5. TypeOK'
  BY <1>1, <1>2, <1>3, StoreAssumption DEF IInv, TypeOK
<1>6. JobInv'
  BY <1>1, <1>2 DEF IInv, TypeOK, JobInv
<1>7. ApartInv' /\ NameInv'
  BY <1>2 DEF IInv, TypeOK, ApartInv, NameInv
<1>8. ASSUME NEW q \in Requests, NEW g \in Files, g \in files'[q]
      PROVE  /\ pc'[q] = "write" => tmp'[g] = fd'[q] /\ data'[fd'[q]] = Empty
             /\ pc'[q] = "replace" => tmp'[g] # None /\ data'[tmp'[g]] = value'[q]
  <2>1. CASE q = r
    BY <1>1, <1>2, <1>3, <1>8, <2>1 DEF IInv, TypeOK
  <2>2. CASE q # r
    <3>1. pc[q] \in {"write", "replace"} => g # f
      BY <1>1, <1>2, <1>8, <2>2 DEF IInv, ApartInv
    <3>2. pc[q] = "write" => fd[q] # fd[r]
      BY <1>4, <1>8, <3>1 DEF IInv, DataInv
    <3> QED BY <1>3, <1>4, <1>8, <2>2, <3>1, <3>2 DEF IInv, TypeOK, DataInv
  <2> QED BY <2>1, <2>2
<1>9. ASSUME NEW g \in Files, path'[g] # None
      PROVE  data'[path'[g]] \in Values \cup {Fresh}
  BY <1>3, <1>4, <1>9 DEF IInv, TypeOK, DataInv
<1>10. DataInv'
  BY <1>8, <1>9 DEF DataInv
<1> QED BY <1>5, <1>6, <1>7, <1>10 DEF IInv

LEMMA ReplaceInv ==
  ASSUME IInv, NEW r \in Requests, Replace(r)
  PROVE  /\ IInv'
         /\ \E f \in left[r] :
              /\ path' = [path EXCEPT ![f] = tmp[f]] /\ tmp[f] \in Inodes
              /\ data[tmp[f]] = value[r] /\ left[r] = {f} /\ pc'[r] = "return"
<1>1. PICK f \in Files : files[r] = {f} /\ left[r] = {f} /\ value[r] \in Values
  BY DEF Replace, IInv, JobInv
<1>2. tmp[f] # None /\ tmp[f] \in Inodes /\ data[tmp[f]] = value[r] /\ pc[r] = "replace" /\ Busy(r)
  BY <1>1 DEF Replace, IInv, DataInv, TypeOK, Busy
<1>3. /\ pc' = [pc EXCEPT ![r] = "return"] /\ left' = [left EXCEPT ![r] = {}]
      /\ path' = [path EXCEPT ![f] = tmp[f]] /\ tmp' = [tmp EXCEPT ![f] = None]
      /\ UNCHANGED <<data, files, value, fd, turn, cred>>
  BY <1>1, <1>2 DEF Replace, Goto
<1>4. TypeOK'
  BY <1>1, <1>2, <1>3 DEF IInv, TypeOK
<1>5. JobInv'
  BY <1>3 DEF IInv, TypeOK, JobInv
<1>6. ApartInv'
  BY <1>2, <1>3 DEF IInv, TypeOK, ApartInv, Busy
<1>7. NameInv'
  BY <1>1, <1>2, <1>3, StoreAssumption DEF IInv, TypeOK, NameInv
<1>8. ASSUME NEW q \in Requests, NEW g \in Files, g \in files'[q]
      PROVE  /\ pc'[q] = "write" => tmp'[g] = fd'[q] /\ data'[fd'[q]] = Empty
             /\ pc'[q] = "replace" => tmp'[g] # None /\ data'[tmp'[g]] = value'[q]
  <2>1. CASE q = r
    BY <1>3, <1>8, <2>1 DEF IInv, TypeOK
  <2>2. CASE q # r
    <3>1. pc[q] \in {"write", "replace"} => g # f
      BY <1>1, <1>2, <1>3, <1>8, <2>2 DEF IInv, ApartInv, Busy
    <3> QED BY <1>1, <1>3, <1>8, <2>2, <3>1 DEF IInv, TypeOK, DataInv
  <2> QED BY <2>1, <2>2
<1>9. ASSUME NEW g \in Files, path'[g] # None
      PROVE  data'[path'[g]] \in Values \cup {Fresh}
  BY <1>1, <1>2, <1>3, <1>9 DEF IInv, TypeOK, DataInv
<1>10. DataInv'
  BY <1>8, <1>9 DEF DataInv
<1>11. pc'[r] = "return"
  BY <1>3 DEF IInv, TypeOK
<1> QED BY <1>1, <1>2, <1>3, <1>4, <1>5, <1>6, <1>7, <1>10, <1>11 DEF IInv

LEMMA RemoveInv ==
  ASSUME IInv, NEW r \in Requests, Remove(r)
  PROVE  IInv'
<1> DEFINE f == IF "auth" \in left[r] THEN "auth" ELSE "key"
<1>1. f \in left[r] /\ left[r] \subseteq files[r] /\ value[r] = None /\ pc[r] = "remove"
  BY DEF Remove, IInv, JobInv, TypeOK
<1>2. /\ left' = [left EXCEPT ![r] = @ \ {f}]
      /\ pc' = [pc EXCEPT ![r] = IF left'[r] = {} THEN "return" ELSE "remove"]
      /\ path' = [path EXCEPT ![f] = None] \/ UNCHANGED path
      /\ UNCHANGED <<tmp, data, files, value, fd, turn, cred>>
  BY DEF Remove, Goto
<1> HIDE DEF f
<1>3. TypeOK'
  BY <1>1, <1>2 DEF IInv, TypeOK
<1>4. JobInv'
  BY <1>1, <1>2 DEF IInv, TypeOK, JobInv
<1>5. ApartInv'
  BY <1>1, <1>2 DEF IInv, TypeOK, ApartInv, Busy
<1>6. NameInv'
  BY <1>1, <1>2, StoreAssumption DEF IInv, TypeOK, NameInv
<1>7. DataInv'
  BY <1>1, <1>2 DEF IInv, TypeOK, DataInv
<1> QED BY <1>3, <1>4, <1>5, <1>6, <1>7 DEF IInv

LEMMA EndInv ==
  ASSUME IInv, NEW r \in Requests, Return(r) \/ Crash(r)
  PROVE  IInv'
<1> USE DEF IInv, Return, Crash, Goto, disk, Busy
<1>1. TypeOK'
  BY DEF TypeOK
<1>2. JobInv'
  BY DEF TypeOK, JobInv
<1>3. ApartInv'
  BY DEF TypeOK, ApartInv
<1>4. NameInv'
  BY DEF TypeOK, NameInv
<1>5. DataInv'
  BY DEF TypeOK, DataInv
<1> QED BY <1>1, <1>2, <1>3, <1>4, <1>5

LEMMA RefreshInv ==
  ASSUME IInv, Refresh
  PROVE  IInv'
<1>1. PICK i \in Inodes :
        /\ ~Used(i) /\ path' = [path EXCEPT !["auth"] = i]
        /\ data' = [data EXCEPT ![i] = Fresh]
  BY DEF Refresh
<1>2. /\ \A g \in Files : i # path[g] /\ i # tmp[g]
      /\ \A r \in Requests : i # fd[r]
      /\ i # None
  BY <1>1, StoreAssumption DEF Used
<1> USE <1>1, <1>2 DEF IInv, Refresh, requests, Busy
<1>3. TypeOK'
  BY DEF TypeOK
<1>4. JobInv' /\ ApartInv'
  BY DEF JobInv, ApartInv
<1>5. NameInv'
  BY DEF TypeOK, NameInv
<1>6. DataInv'
  BY DEF TypeOK, DataInv
<1> QED BY <1>3, <1>4, <1>5, <1>6

(* A send changes no file.                                                  *)
LEMMA SendInv ==
  ASSUME IInv, CheckLogin \/ CheckKey \/ EnvLogin \/ EnvKey \/ CliExit
  PROVE  IInv' /\ UNCHANGED <<disk, requests>>
<1>1. UNCHANGED <<disk, requests>>
  BY DEF CheckLogin, CheckKey, EnvLogin, EnvKey, CliExit
<1>2. ApiKey \in Contents \cup {Shared, None}
  BY DEF ApiKey, IInv, TypeOK
<1>3. TypeOK'
  BY <1>1, <1>2 DEF IInv, TypeOK, CheckLogin, CheckKey, EnvLogin, EnvKey, CliExit, disk, requests
<1>4. JobInv' /\ ApartInv' /\ NameInv' /\ DataInv'
  BY <1>1 DEF IInv, JobInv, ApartInv, NameInv, DataInv, Busy, disk, requests
<1> QED BY <1>1, <1>3, <1>4 DEF IInv

(* Whatever a request begins with.                                          *)
LEMMA RequestBegins ==
  ASSUME NEW r \in Requests, Import(r) \/ SetKey(r) \/ Logout(r)
  PROVE  \E fs \in SUBSET Files, v \in Values \cup {None} :
           fs # {} /\ (v \in Values => \E f \in Files : fs = {f}) /\ Begin(r, fs, v)
<1>1. CASE Import(r)
  BY <1>1 DEF Import
<1>2. CASE SetKey(r)
  BY <1>2 DEF SetKey
<1>3. CASE Logout(r)
  BY <1>3, StoreAssumption DEF Logout
<1> QED BY <1>1, <1>2, <1>3

LEMMA NextInv == ASSUME ~Overlap, IInv, [Next]_vars PROVE IInv'
<1>1. CASE Turn
  BY <1>1, SendInv, RefreshInv DEF Turn
<1>2. ASSUME NEW r \in Requests, Request(r) PROVE IInv'
  <2>1. CASE Import(r) \/ SetKey(r) \/ Logout(r)
    BY <2>1, RequestBegins, BeginInv
  <2>2. CASE Open(r)
    BY <2>2, OpenInv
  <2>3. CASE Write(r)
    BY <2>3, WriteInv
  <2>4. CASE Replace(r)
    BY <2>4, ReplaceInv
  <2>5. CASE Remove(r)
    BY <2>5, RemoveInv
  <2>6. CASE Return(r) \/ Crash(r)
    BY <2>6, EndInv
  <2> QED BY <1>2, <2>1, <2>2, <2>3, <2>4, <2>5, <2>6 DEF Request
<1>3. CASE UNCHANGED vars
  BY <1>3 DEF vars, disk, requests, IInv, TypeOK, JobInv, ApartInv, NameInv, DataInv, Busy
<1> QED BY <1>1, <1>2, <1>3 DEF Next

(* Every reachable state satisfies the invariant.                           *)
THEOREM StoreInvariant == ASSUME ~Overlap PROVE Spec => []IInv
<1>1. IInv /\ [Next]_vars => IInv'
  BY NextInv
<1> QED BY <1>1, InitInv, PTL DEF Spec

(* Types of files, requests and sends (res_users.py), and no file is open   *)
(* outside the with statement.                                              *)
THEOREM TypeCorrect == ASSUME ~Overlap PROVE Spec => []TypeOK
<1>1. IInv => TypeOK
  BY DEF IInv
<1> QED BY <1>1, StoreInvariant, PTL

(* A CLI gets the user's own key, whole, if one is set, and the shared one  *)
(* otherwise (_grokoo_api_key in _grokoo_auth_env).                         *)
THEOREM KeysAreWhole == ASSUME ~Overlap PROVE Spec => KeyAsSet
<1>1. IInv /\ EnvKey => /\ cred' = IF path["key"] = None THEN Shared ELSE data[path["key"]]
                        /\ cred' \notin {Empty, Torn}
  BY StoreAssumption DEF IInv, DataInv, EnvKey, ApiKey
<1>2. IInv /\ [Next]_vars =>
        [EnvKey => /\ cred' = IF path["key"] = None THEN Shared ELSE data[path["key"]]
                   /\ cred' \notin {Empty, Torn}]_vars
  BY <1>1
<1> QED BY <1>2, StoreInvariant, PTL DEF Spec, KeyAsSet

-----------------------------------------------------------------------------
(* Between the check and the launch.                                        *)
Removal == \E r \in Requests : files[r] # {} /\ value[r] = None

SendInvariant ==
  /\ turn = "passed" => path["auth"] # None \/ path["key"] # None \/ Shared # None \/ Removal
  /\ turn = "envKey" => path["key"] # None \/ Shared # None \/ Removal
  /\ turn = "launched" /\ cred = None => Removal

(* Files vanish only by a removal, and that one does not go away.           *)
LEMMA RemovalStays ==
  ASSUME ~Overlap, IInv, NEW r \in Requests, Request(r)
  PROVE  /\ Removal => Removal'
         /\ \A f \in Files : path[f] # None /\ path'[f] = None => Removal'
         /\ UNCHANGED <<turn, cred>>
<1>1. CASE Import(r) \/ SetKey(r) \/ Logout(r)
  <2>1. PICK fs \in SUBSET Files, v \in Values \cup {None} : Begin(r, fs, v)
    BY <1>1, RequestBegins
  <2>2. files[r] = {}
    BY <2>1 DEF Begin, IInv, JobInv
  <2> QED BY <2>1, <2>2 DEF Begin, Removal, IInv, TypeOK, disk
<1>2. CASE Open(r) \/ Write(r) \/ Return(r) \/ Crash(r)
  BY <1>2 DEF Open, Write, Return, Crash, Removal, disk
<1>3. CASE Replace(r)
  BY <1>3, ReplaceInv, StoreAssumption DEF Replace, Removal, IInv, TypeOK
<1>4. CASE Remove(r)
  <2>1. files[r] # {} /\ value[r] = None
    BY <1>4 DEF Remove, IInv, JobInv
  <2> QED BY <1>4, <2>1 DEF Remove, Removal
<1> QED BY <1>1, <1>2, <1>3, <1>4 DEF Request

LEMMA SendStep ==
  ASSUME ~Overlap, IInv, SendInvariant, [Next]_vars
  PROVE  SendInvariant'
<1>1. ASSUME NEW r \in Requests, Request(r) PROVE SendInvariant'
  BY <1>1, RemovalStays DEF SendInvariant
<1>2. CASE CheckLogin \/ CheckKey
  BY <1>2, SendInv DEF SendInvariant, Removal, CheckLogin, CheckKey, HasLogin, ApiKey, disk, requests
<1>3. CASE EnvLogin
  <2>1. HasLogin <=> path["auth"] # None
    BY StoreAssumption DEF HasLogin, IInv, DataInv
  <2> QED BY <1>3, <2>1, StoreAssumption DEF SendInvariant, Removal, EnvLogin, disk, requests
<1>4. CASE EnvKey
  <2>1. ApiKey = None => path["key"] = None /\ Shared = None
    BY StoreAssumption DEF ApiKey, IInv, DataInv
  <2> QED BY <1>4, <2>1 DEF SendInvariant, Removal, EnvKey, disk, requests
<1>5. CASE Refresh
  BY <1>5, StoreAssumption DEF SendInvariant, Removal, Refresh, requests
<1>6. CASE CliExit
  BY <1>6 DEF SendInvariant, CliExit
<1>7. CASE UNCHANGED vars
  BY <1>7 DEF SendInvariant, Removal, vars, disk, requests
<1> QED BY <1>1, <1>2, <1>3, <1>4, <1>5, <1>6, <1>7 DEF Next, Turn

(* A send checks the credentials and reads them again for its CLI's         *)
(* environment: without a removal by the user it finds some.                *)
THEOREM CredentialsLast == ASSUME ~Overlap PROVE Spec => []NoneOnlyAfterRemoval
<1>1. Init => SendInvariant
  BY DEF Init, SendInvariant
<1>2. IInv /\ SendInvariant /\ [Next]_vars => SendInvariant'
  BY SendStep
<1>3. SendInvariant => NoneOnlyAfterRemoval
  BY DEF SendInvariant, NoneOnlyAfterRemoval, Removal
<1> QED BY <1>1, <1>2, <1>3, StoreInvariant, PTL DEF Spec

-----------------------------------------------------------------------------
(* The files as registers.                                                  *)
Reg    == [f \in Files |-> IF path[f] = None THEN None ELSE data[path[f]]]
Status == [r \in Requests |-> IF pc[r] = "idle" THEN "idle"
                              ELSE IF Busy(r) THEN "called" ELSE "over"]

(* A step that leaves the named files' contents and the phases alone.       *)
LEMMA RegSame ==
  ASSUME IInv, path' = path,
         \A f \in Files : path[f] # None => data'[path[f]] = data[path[f]]
  PROVE  Reg' = Reg
BY DEF Reg

(* A request moves on within its call.                                      *)
LEMMA StatusStep ==
  ASSUME IInv, NEW r \in Requests, NEW p, pc' = [pc EXCEPT ![r] = p]
  PROVE  /\ p \notin {"idle", "done", "failed", "dead"} => Status' = [Status EXCEPT ![r] = "called"]
         /\ p \in {"done", "failed", "dead"} => Status' = [Status EXCEPT ![r] = "over"]
         /\ Busy(r) => Status[r] = "called"
         /\ pc[r] = "idle" => Status[r] = "idle"
BY DEF Status, Busy, IInv, TypeOK

LEMMA StatusStays ==
  ASSUME IInv, NEW r \in Requests, NEW p \in {"write", "replace", "remove", "return"},
         Busy(r), pc' = [pc EXCEPT ![r] = p]
  PROVE  Status[r] = "called" /\ Status' = Status
BY DEF Status, Busy, IInv, TypeOK

LEMMA RequestRefines ==
  ASSUME ~Overlap, IInv, NEW r \in Requests, Request(r)
  PROVE  \/ Register!Call(r) \/ Register!Apply(r) \/ Register!Return(r) \/ Register!Die(r)
         \/ UNCHANGED Register!vars
<1> USE DEF Goto
<1>1. CASE Import(r) \/ SetKey(r) \/ Logout(r)
  <2>1. PICK fs \in SUBSET Files, v \in Values \cup {None} : Begin(r, fs, v)
    BY <1>1, RequestBegins
  <2>2. Reg' = Reg
    BY <2>1 DEF Begin, disk, Reg
  <2>3. Status[r] = "idle" /\ Status' = [Status EXCEPT ![r] = "called"]
    <3>1. pc[r] = "idle" /\ \E p \in {"open", "remove"} : pc' = [pc EXCEPT ![r] = p]
      BY <2>1 DEF Begin
    <3> QED BY <3>1, StatusStep
  <2>4. Register!Call(r)
    BY <2>1, <2>2, <2>3 DEF Begin, Register!Call, Register!Stored, Reg, Status
  <2> QED BY <2>4
<1>2. CASE Open(r)
  <2>1. PICK f \in files[r], i \in Inodes :
          /\ IF tmp[f] = None THEN ~Used(i) ELSE i = tmp[f]
          /\ data' = [data EXCEPT ![i] = Empty]
    BY <1>2 DEF Open
  <2>2. \A g \in Files : i # path[g]
    BY <2>1, <1>2, StoreAssumption DEF IInv, NameInv, Used, TypeOK
  <2>3. Reg' = Reg
    BY <1>2, <2>1, <2>2, RegSame DEF Open, IInv, TypeOK
  <2>4. Status' = Status
    <3>1. Busy(r) /\ pc' = [pc EXCEPT ![r] = "write"]
      BY <1>2 DEF Open, Busy
    <3> QED BY <3>1, StatusStays
  <2> QED BY <1>2, <2>3, <2>4 DEF Open, Register!vars, Reg, Status
<1>3. CASE Write(r)
  <2>1. PICK f \in Files : files[r] = {f} /\ tmp[f] = fd[r] /\ fd[r] # None
    BY <1>3, StoreAssumption DEF Write, IInv, JobInv, DataInv, TypeOK
  <2>2. \A g \in Files : fd[r] # path[g]
    BY <2>1 DEF IInv, NameInv
  <2>3. Reg' = Reg
    BY <1>3, <2>2, RegSame DEF Write, IInv, TypeOK
  <2>4. Status' = Status
    <3>1. Busy(r) /\ pc' = [pc EXCEPT ![r] = "replace"]
      BY <1>3 DEF Write, Busy
    <3> QED BY <3>1, StatusStays
  <2> QED BY <1>3, <2>3, <2>4 DEF Write, Register!vars, Reg, Status
<1>4. CASE Replace(r)
  <2>1. PICK f \in left[r] :
          /\ path' = [path EXCEPT ![f] = tmp[f]] /\ tmp[f] \in Inodes
          /\ data[tmp[f]] = value[r] /\ left[r] = {f} /\ pc'[r] = "return"
    BY <1>4, ReplaceInv
  <2>2. f \in Files /\ data' = data /\ left' = [left EXCEPT ![r] = left[r] \ {f}] /\ value' = value
    BY <1>4, <2>1 DEF Replace, IInv, TypeOK
  <2>3. Reg' = [Reg EXCEPT ![f] = value[r]]
    BY <2>1, <2>2, StoreAssumption DEF Reg, IInv, TypeOK
  <2>4. pc' = [pc EXCEPT ![r] = "return"]
    BY <1>4, <2>1 DEF Replace, IInv, TypeOK
  <2>5. Status[r] = "called" /\ Status' = Status
    <3>1. Busy(r)
      BY <1>4 DEF Replace, Busy
    <3> QED BY <2>4, <3>1, StatusStays
  <2> QED BY <2>1, <2>2, <2>3, <2>5 DEF Register!Apply, Reg, Status
<1>5. CASE Remove(r)
  <2> DEFINE f == IF "auth" \in left[r] THEN "auth" ELSE "key"
  <2>1. f \in left[r] /\ f \in Files /\ value[r] = None /\ pc[r] = "remove"
    BY <1>5 DEF Remove, IInv, JobInv, TypeOK
  <2>2. /\ left' = [left EXCEPT ![r] = @ \ {f}]
        /\ pc' = [pc EXCEPT ![r] = IF left'[r] = {} THEN "return" ELSE "remove"]
        /\ path' = [path EXCEPT ![f] = None] \/ (RemoveFails /\ UNCHANGED path)
        /\ data' = data /\ value' = value
    BY <1>5 DEF Remove
  <2> HIDE DEF f
  <2>3. Reg' = [Reg EXCEPT ![f] = None] \/ (RemoveFails /\ Reg' = Reg)
    <3>1. CASE RemoveFails /\ UNCHANGED path
      BY <2>2, <3>1 DEF Reg
    <3>2. CASE path' = [path EXCEPT ![f] = None]
      BY <2>1, <2>2, <3>2 DEF Reg, IInv, TypeOK
    <3> QED BY <2>2, <3>1, <3>2
  <2>4. Status[r] = "called" /\ Status' = Status
    <3>1. Busy(r) /\ \E p \in {"remove", "return"} : pc' = [pc EXCEPT ![r] = p]
      BY <2>1, <2>2 DEF Busy
    <3> QED BY <3>1, StatusStays
  <2> QED BY <2>1, <2>2, <2>3, <2>4 DEF Register!Apply, Reg, Status
<1>6. CASE Return(r)
  <2>1. Status[r] = "called" /\ Status' = [Status EXCEPT ![r] = "over"] /\ left[r] = {}
    BY <1>6, StatusStep DEF Return, Busy, IInv, JobInv
  <2> QED BY <1>6, <2>1 DEF Return, Register!Return, Reg, Status, disk
<1>7. CASE Crash(r)
  <2>1. Status[r] = "called" /\ Status' = [Status EXCEPT ![r] = "over"]
    BY <1>7, StatusStep DEF Crash
  <2> QED BY <1>7, <2>1 DEF Crash, Register!Die, Reg, Status, disk
<1> QED BY <1>1, <1>2, <1>3, <1>4, <1>5, <1>6, <1>7 DEF Request

LEMMA NextRefines ==
  ASSUME ~Overlap, IInv, [Next]_vars
  PROVE  [Register!Next]_(Register!vars)
<1>1. ASSUME NEW r \in Requests, Request(r) PROVE [Register!Next]_(Register!vars)
  BY <1>1, RequestRefines DEF Register!Next
<1>2. CASE CheckLogin \/ CheckKey \/ EnvLogin \/ EnvKey \/ CliExit
  <2>1. UNCHANGED <<disk, requests>>
    BY <1>2, SendInv
  <2> QED BY <2>1 DEF Register!vars, disk, requests, Busy
<1>3. CASE Refresh
  <2>1. PICK i \in Inodes :
          /\ ~Used(i) /\ path' = [path EXCEPT !["auth"] = i]
          /\ data' = [data EXCEPT ![i] = Fresh]
    BY <1>3 DEF Refresh
  <2>2. Reg' = [Reg EXCEPT !["auth"] = Fresh]
    <3>1. path \in [Files -> Inodes \cup {None}] /\ "auth" \in Files /\ data \in [Inodes -> Contents]
      BY DEF IInv, TypeOK, Files
    <3>2. path'["auth"] = i /\ data'[i] = Fresh /\ i # None
      BY <2>1, <3>1, StoreAssumption
    <3>3. \A f \in Files \ {"auth"} :
             path'[f] = path[f] /\ (path[f] # None => data'[path[f]] = data[path[f]])
      BY <2>1, <3>1 DEF Used
    <3> QED BY <3>1, <3>2, <3>3 DEF Reg
  <2>3. Register!Refresh
    BY <1>3, <2>2 DEF Refresh, Register!Refresh, Reg, requests, Busy
  <2> QED BY <2>3 DEF Register!Next
<1>4. CASE UNCHANGED vars
  BY <1>4 DEF Register!vars, vars, disk, requests, Busy
<1> QED BY <1>1, <1>2, <1>3, <1>4 DEF Next, Turn

(* "Atomically write a per-user credential file": auth.json and api_key,    *)
(* with their temporary files, crashes and leftovers, implement registers   *)
(* that every request changes in one step.                                  *)
THEOREM StoreIsRegister == ASSUME ~Overlap PROVE Spec => ImplementsRegister
<1>1. Init => Register!Init
  BY DEF Init, Register!Init, Register!Stored
<1>2. IInv /\ [Next]_vars => [Register!Next]_(Register!vars)
  BY NextRefines
<1> QED BY <1>1, <1>2, StoreInvariant, PTL DEF Spec, ImplementsRegister, Register!Spec
=============================================================================
