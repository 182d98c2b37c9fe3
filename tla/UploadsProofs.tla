--------------------------- MODULE UploadsProofs ---------------------------
(* What Uploads promises for any sessions, files and number of messages,    *)
(* whatever uploads fail, are refused or overlap with messages.             *)
EXTENDS Uploads, TLAPS

USE DEF Answers, Sends

(***************************************************************************)
(* Where a file is                                                         *)
(***************************************************************************)
Sent(k)     == sent[k] # None
InUpload(f) == upload # None /\ f \in upload.files
InMessage(f, k) == Sent(k) /\ f \in sent[k].files

(* A file is in one place: the upload under way, the composer, or one of   *)
(* the messages sent.                                                      *)
OnePlace ==
  /\ \A f \in Files : InUpload(f) => f \in picked /\ f \notin chips
  /\ \A f \in Files, k \in Sends : InMessage(f, k) =>
       f \in picked /\ f \notin chips /\ ~InUpload(f)
  /\ \A f \in Files, j, k \in Sends : InMessage(f, j) /\ InMessage(f, k) => j = k

(* A turn is given files of its own message only.                          *)
AttachedWasSent ==
  \A k \in Sends : \A f \in attached[k] : InMessage(f, k)

(* The files of an upload that is answered without error are stored for    *)
(* the session they were picked in.                                        *)
UploadStored ==
  upload # None /\ upload.answer = "ok" => \A f \in upload.files : owner[f] = upload.to

PlaceInv == TypeOK /\ UploadStored /\ OnePlace /\ AttachedWasSent

LEMMA TypeStep ==
  ASSUME PlaceInv, [Next]_vars
  PROVE  TypeOK' /\ UploadStored'
<1> USE DEF PlaceInv
<1>1. CASE Pick
  <2>1. PICK fs \in (SUBSET (Files \ picked)) \ {{}} :
          /\ upload' = [to |-> open, files |-> fs, answer |-> "none"]
          /\ picked' = picked \cup fs
    BY <1>1 DEF Pick
  <2>2. upload' \in Upload /\ upload'.answer = "none"
    BY <2>1 DEF TypeOK, Upload
  <2> QED BY <1>1, <2>1, <2>2 DEF Pick, TypeOK, UploadStored, server
<1>2. CASE Uploaded
  <2>1. upload \in Upload /\ upload' = None
    BY <1>2 DEF Uploaded, TypeOK
  <2>2. chips' \subseteq picked /\ \A f \in chips' : owner[f] # None
    <3>1. CASE upload.answer = "ok"
      <4>1. \A f \in upload.files : owner[f] = upload.to /\ upload.to \in Sessions
        BY <1>2, <2>1, <3>1 DEF Uploaded, UploadStored, Upload
      <4>2. upload.files \subseteq picked
        BY <1>2, <2>1 DEF OnePlace, InUpload, Uploaded, Upload
      <4> QED BY <1>2, <3>1, <4>1, <4>2, NoneAssumption DEF Uploaded, TypeOK
    <3>2. CASE upload.answer # "ok"
      BY <1>2, <3>2 DEF Uploaded, TypeOK
    <3> QED BY <3>1, <3>2
  <2> QED BY <1>2, <2>1, <2>2 DEF Uploaded, TypeOK, UploadStored, server
<1>3. CASE RemoveFile \/ Switch \/ TurnEnds \/ Wipe
  <2>1. UploadStored'
    BY <1>3 DEF RemoveFile, Switch, TurnEnds, Wipe, UploadStored, view, server
  <2>2. CASE RemoveFile \/ Wipe
    BY <2>1, <2>2 DEF RemoveFile, Wipe, TypeOK, view, server
  <2>3. CASE Switch
    <3>1. open' \in Sessions /\ busy' \in BOOLEAN
      BY <2>3 DEF Switch
    <3> QED BY <2>1, <2>3, <3>1 DEF Switch, TypeOK, server
  <2>4. CASE TurnEnds
    <3>1. busy' \in BOOLEAN
      BY <2>4 DEF TurnEnds
    <3>2. running' \subseteq Sessions
      BY <2>4 DEF TurnEnds, TypeOK
    <3> QED BY <2>1, <2>4, <3>1, <3>2 DEF TurnEnds, TypeOK
  <2> QED BY <1>3, <2>2, <2>3, <2>4
<1>4. ASSUME NEW fs \in SUBSET (upload.files \ Bad), upload # None, chips' = chips,
             picked' = picked,
             Store(fs) \/ (disk' = disk \cup fs /\ UNCHANGED owner)
      PROVE  /\ owner' \in [Files -> Sessions \cup {None}] /\ disk' \subseteq picked'
             /\ \A f \in chips' : owner'[f] # None
  <2>1. upload \in Upload
    BY <1>4 DEF TypeOK
  <2>2. fs \subseteq picked /\ upload.to \in Sessions /\ fs \subseteq Files
    BY <1>4, <2>1 DEF Upload, OnePlace, InUpload
  <2> QED BY <1>4, <2>2, NoneAssumption DEF Store, TypeOK
<1>5. CASE ServeUpload
  <2>1. upload \in Upload
    BY <1>5 DEF ServeUpload, TypeOK
  <2>2. PICK fs \in SUBSET (upload.files \ Bad), a \in {"ok", "error"} :
          /\ Store(fs) /\ upload' = [upload EXCEPT !.answer = a]
          /\ a = "ok" => fs = upload.files
    BY <1>5 DEF ServeUpload
  <2>3. /\ upload' \in Upload /\ upload'.files = upload.files /\ upload'.to = upload.to
        /\ upload'.answer = a
    BY <2>1, <2>2 DEF Upload
  <2>4. UploadStored'
    BY <2>1, <2>2, <2>3 DEF UploadStored, Store, Upload
  <2> QED BY <1>4, <1>5, <2>2, <2>3, <2>4 DEF ServeUpload, TypeOK
<1>6. CASE UploadLost
  <2>1. upload \in Upload
    BY <1>6 DEF UploadLost, TypeOK
  <2>2. upload' \in Upload /\ upload'.answer = "error"
    BY <1>6, <2>1 DEF UploadLost, Upload
  <2> QED BY <1>4, <1>6, <2>2 DEF UploadLost, TypeOK, UploadStored
<1>7. ASSUME NEW k \in Sends, Send(k) \/ SendFailed(k) \/ Accept(k) \/ Refuse(k)
      PROVE  TypeOK' /\ UploadStored'
  <2>1. UploadStored'
    BY <1>7 DEF UploadStored, Send, Submit, SendFailed, Accept, Refuse, view, server
  <2>2. ASSUME NEW a \in Answers, Sent(k), sent' = [sent EXCEPT ![k].answer = a]
        PROVE  sent' \in [Sends -> Message \cup {None}]
    BY <2>2 DEF TypeOK, Message, Sent
  <2>3. CASE Send(k)
    <3>1. PICK text \in BOOLEAN : Submit(k, text) /\ chips' = {}
      BY <2>3 DEF Send
    <3>2. [to |-> open, files |-> chips, text |-> text, answer |-> "none"] \in Message
      BY DEF TypeOK, Message
    <3> QED BY <2>1, <3>1, <3>2 DEF Submit, TypeOK, server
  <2>4. CASE SendFailed(k)
    BY <2>1, <2>2, <2>4 DEF SendFailed, TypeOK, server, Sent
  <2>5. CASE Accept(k)
    <3>1. sent[k] \in Message /\ Sent(k)
      BY <2>5 DEF Accept, TypeOK, Sent
    <3>2. sent' \in [Sends -> Message \cup {None}]
      BY <2>2, <2>5, <3>1 DEF Accept
    <3>3. \A f \in sent[k].files : f \in picked /\ f \in Files
      BY <3>1 DEF OnePlace, InMessage, Message
    <3> QED BY <2>1, <2>5, <3>1, <3>2, <3>3 DEF Accept, Materialize, TypeOK, view, Message
  <2>6. CASE Refuse(k)
    BY <2>1, <2>2, <2>6 DEF Refuse, TypeOK, view, server, Sent
  <2> QED BY <1>7, <2>3, <2>4, <2>5, <2>6
<1>8. CASE UNCHANGED vars
  BY <1>8 DEF vars, view, server, TypeOK, UploadStored
<1> QED BY <1>1, <1>2, <1>3, <1>5, <1>6, <1>7, <1>8 DEF Next
LEMMA PlaceStep ==
  ASSUME PlaceInv, TypeOK', [Next]_vars
  PROVE  OnePlace' /\ AttachedWasSent'
<1> USE DEF PlaceInv
<1>1. CASE Pick
  <2>1. PICK fs \in (SUBSET (Files \ picked)) \ {{}} :
          /\ upload' = [to |-> open, files |-> fs, answer |-> "none"]
          /\ picked' = picked \cup fs
    BY <1>1 DEF Pick
  <2>2. upload'.files = fs /\ upload = None /\ chips' = chips /\ sent' = sent
        /\ attached' = attached
    BY <1>1, <2>1 DEF Pick, server
  <2> QED BY <2>1, <2>2 DEF OnePlace, AttachedWasSent, InUpload, InMessage, Sent, TypeOK
<1>2. CASE Uploaded
  <2>1. upload' = None /\ picked' = picked /\ sent' = sent /\ attached' = attached
    BY <1>2 DEF Uploaded, server
  <2>2. \A f \in Files : f \in chips' => f \in chips \/ InUpload(f)
    BY <1>2 DEF Uploaded, InUpload
  <2> QED BY <2>1, <2>2 DEF OnePlace, AttachedWasSent, InUpload, InMessage, Sent
<1>3. CASE RemoveFile \/ Switch \/ TurnEnds \/ Wipe
  <2>1. /\ chips' \subseteq chips /\ upload' = upload /\ picked' = picked /\ sent' = sent
        /\ attached' = attached
    BY <1>3 DEF RemoveFile, Switch, TurnEnds, Wipe, view, server
  <2> QED BY <2>1 DEF OnePlace, AttachedWasSent, InUpload, InMessage, Sent
<1>4. CASE ServeUpload \/ UploadLost
  <2>1. upload \in Upload /\ chips' = chips /\ picked' = picked /\ sent' = sent
        /\ attached' = attached /\ upload # None
    BY <1>4 DEF ServeUpload, UploadLost, TypeOK
  <2>2. upload'.files = upload.files
    BY <1>4, <2>1 DEF ServeUpload, UploadLost, Upload
  <2> QED BY <2>1, <2>2 DEF OnePlace, AttachedWasSent, InUpload, InMessage, Sent
<1>5. ASSUME NEW k \in Sends, Send(k) PROVE OnePlace' /\ AttachedWasSent'
  <2>1. PICK text \in BOOLEAN : Submit(k, text) /\ chips' = {}
    BY <1>5 DEF Send
  <2>2. /\ upload = None /\ upload' = None /\ picked' = picked /\ sent[k] = None
        /\ attached' = attached
    BY <2>1 DEF Submit, server
  <2>3. sent'[k].files = chips /\ \A j \in Sends : j # k => sent'[j] = sent[j]
    BY <2>1 DEF Submit, TypeOK
  <2>4. \A f \in Files, j \in Sends : InMessage(f, j)' => InMessage(f, j) \/ (j = k /\ f \in chips)
    BY <2>3 DEF InMessage, Sent
  <2>5. \A f \in Files, j \in Sends : InMessage(f, j) => InMessage(f, j)'
    BY <2>2, <2>3 DEF InMessage, Sent
  <2>6. OnePlace'
    BY <2>1, <2>2, <2>4 DEF OnePlace, InUpload, TypeOK
  <2>7. AttachedWasSent'
    BY <2>2, <2>5 DEF AttachedWasSent, TypeOK
  <2> QED BY <2>6, <2>7
<1>6. ASSUME NEW k \in Sends, SendFailed(k) \/ Accept(k) \/ Refuse(k)
      PROVE  OnePlace' /\ AttachedWasSent'
  <2>1. /\ upload' = upload /\ picked' = picked /\ chips' = chips /\ Sent(k)
        /\ \E a \in Answers : sent' = [sent EXCEPT ![k].answer = a]
    BY <1>6 DEF SendFailed, Accept, Refuse, Sent, view
  <2>2. \A j \in Sends : Sent(j) => Sent(j)' /\ sent'[j].files = sent[j].files
    BY <2>1, NoneAssumption DEF TypeOK, Message, Sent
  <2>3. \A j \in Sends : Sent(j)' => Sent(j)
    BY <2>1 DEF TypeOK, Sent
  <2>4. \A j \in Sends : \A f : InMessage(f, j)' <=> InMessage(f, j)
    BY <2>2, <2>3 DEF InMessage
  <2>5. OnePlace'
    BY <2>1, <2>4 DEF OnePlace, InUpload
  <2>6. CASE attached' = attached
    BY <2>4, <2>5, <2>6 DEF AttachedWasSent
  <2>7. CASE Accept(k)
    <3>1. attached'[k] \subseteq sent[k].files /\ \A j \in Sends : j # k => attached'[j] = attached[j]
      BY <2>7 DEF Accept, Materialize, TypeOK
    <3>2. \A f \in attached'[k] : InMessage(f, k)
      BY <2>1, <3>1 DEF InMessage
    <3> QED BY <2>4, <2>5, <3>1, <3>2 DEF AttachedWasSent
  <2> QED BY <1>6, <2>6, <2>7 DEF SendFailed, Refuse, server
<1>7. CASE UNCHANGED vars
  BY <1>7 DEF vars, view, server, OnePlace, AttachedWasSent, InUpload, InMessage, Sent
<1> QED BY <1>1, <1>2, <1>3, <1>4, <1>5, <1>6, <1>7 DEF Next

LEMMA PlaceInit == Init => PlaceInv
BY NoneAssumption DEF Init, PlaceInv, TypeOK, UploadStored, OnePlace, AttachedWasSent,
  InUpload, InMessage, Sent

LEMMA PlaceInvariant == Spec => []PlaceInv
<1>1. PlaceInv /\ [Next]_vars => PlaceInv'
  BY TypeStep, PlaceStep DEF PlaceInv
<1> QED BY <1>1, PlaceInit, PTL DEF Spec

(* Type correctness of the composer and of what the server keeps; a chip is *)
(* always an attachment that was stored.                                   *)
THEOREM TypeCorrect == Spec => []TypeOK
<1>1. PlaceInv => TypeOK
  BY DEF PlaceInv
<1> QED BY <1>1, PlaceInvariant, PTL

(* onFilesChosen, _send and _materialize_attachments: no file goes out with *)
(* two messages.                                                           *)
THEOREM FilesGoOutOnce == Spec => []AttachedOnce
<1>1. PlaceInv => AttachedOnce
  <2> SUFFICES ASSUME PlaceInv, NEW j \in Sends, NEW k \in Sends,
                      NEW f \in attached[j] \cap attached[k]
               PROVE  j = k
    BY DEF AttachedOnce
  <2>1. f \in Files
    BY DEF PlaceInv, TypeOK
  <2> QED BY <2>1 DEF PlaceInv, OnePlace, AttachedWasSent
<1> QED BY <1>1, PlaceInvariant, PTL

(* _materialize_attachments: what a prompt lists is on disk at the launch.  *)
THEOREM ListedFilesAreThere == Spec => ListedFilesExist
<1> DEFINE There == \A k \in Sends : Accept(k) => attached'[k] \subseteq disk'
<1>1. PlaceInv => There
  BY DEF PlaceInv, TypeOK, Accept, Materialize
<1> HIDE DEF There
<1>2. Spec => [][There]_vars
  BY <1>1, PlaceInvariant, PTL
<1> QED BY <1>2 DEF There, ListedFilesExist

(***************************************************************************)
(* What is shown is attached                                               *)
(***************************************************************************)
(* As long as the user does not switch sessions with files in the composer, *)
(* every file waits in the session it was picked in, and a message takes    *)
(* it along to that session.                                               *)
InItsSession ==
  /\ upload # None => upload.to = open
  /\ \A f \in chips : owner[f] = open
  /\ \A k \in Sends : Sent(k) => \A f \in sent[k].files : owner[f] = sent[k].to

ShownInv == PlaceInv /\ InItsSession /\ ShownIsAttached

(* Storing uploaded files moves no file of the composer or of a message.   *)
LEMMA StoredElsewhere ==
  ASSUME ShownInv, upload # None, NEW fs \in SUBSET upload.files,
         Store(fs) \/ UNCHANGED owner,
         UNCHANGED <<open, chips, sent>>, upload' # None => upload'.to = upload.to
  PROVE  InItsSession'
<1>1. upload \in Upload /\ upload.files \subseteq Files
  BY DEF ShownInv, PlaceInv, TypeOK, Upload
<1>2. \A f \in Files : f \notin upload.files => owner'[f] = owner[f]
  BY <1>1 DEF Store
<1>3. \A f \in chips : f \in Files /\ f \notin upload.files
  BY DEF ShownInv, PlaceInv, OnePlace, InUpload, TypeOK
<1>4. \A k \in Sends : Sent(k) =>
        \A f \in sent[k].files : f \in Files /\ f \notin upload.files
  <2> SUFFICES ASSUME NEW k \in Sends, Sent(k), NEW f \in sent[k].files
               PROVE  f \in Files /\ f \notin upload.files
    OBVIOUS
  <2>1. f \in Files /\ InMessage(f, k)
    BY DEF ShownInv, PlaceInv, TypeOK, Message, Sent, InMessage
  <2> QED BY <2>1 DEF ShownInv, PlaceInv, OnePlace, InUpload
<1> QED BY <1>2, <1>3, <1>4 DEF ShownInv, InItsSession, Sent

LEMMA ShownStep ==
  ASSUME ~Switches, ShownInv, PlaceInv', [Next]_vars
  PROVE  ShownInv'
<1> USE DEF ShownInv, PlaceInv
<1>1. CASE Pick
  <2>1. /\ upload'.to = open /\ open' = open /\ chips' = chips /\ owner' = owner
        /\ sent' = sent /\ attached' = attached
    BY <1>1 DEF Pick, server
  <2> QED BY <2>1 DEF InItsSession, ShownIsAttached, Sent
<1>2. CASE Uploaded
  <2>1. /\ upload' = None /\ open' = open /\ owner' = owner
        /\ sent' = sent /\ attached' = attached
    BY <1>2 DEF Uploaded, server
  <2>2. \A f \in chips' : owner[f] = open
    BY <1>2 DEF Uploaded, UploadStored, InItsSession
  <2> QED BY <2>1, <2>2 DEF InItsSession, ShownIsAttached, Sent
<1>3. CASE RemoveFile \/ TurnEnds \/ Wipe
  <2>1. /\ upload' = upload /\ open' = open /\ owner' = owner /\ chips' \subseteq chips
        /\ sent' = sent /\ attached' = attached
    BY <1>3 DEF RemoveFile, TurnEnds, Wipe, view, server
  <2> QED BY <2>1 DEF InItsSession, ShownIsAttached, Sent
<1>4. CASE Switch
  <2>1. /\ upload' = None /\ chips' = {} /\ owner' = owner
        /\ sent' = sent /\ attached' = attached
    BY <1>4 DEF Switch, server
  <2> QED BY <2>1 DEF InItsSession, ShownIsAttached, Sent
<1>5. CASE ServeUpload \/ UploadLost
  <2>1. /\ upload # None /\ UNCHANGED <<open, chips, sent, attached>>
        /\ \E fs \in SUBSET upload.files : Store(fs) \/ UNCHANGED owner
    BY <1>5 DEF ServeUpload, UploadLost
  <2>2. upload'.to = upload.to
    BY <1>5, <2>1 DEF ServeUpload, UploadLost, TypeOK, Upload
  <2>3. ShownIsAttached'
    BY <2>1 DEF ShownIsAttached
  <2> QED BY <2>1, <2>2, <2>3, StoredElsewhere
<1>6. ASSUME NEW k \in Sends, Send(k) PROVE ShownInv'
  <2>1. PICK text \in BOOLEAN : Submit(k, text) /\ chips' = {}
    BY <1>6 DEF Send
  <2>2. UNCHANGED <<open, upload, owner, attached>>
    BY <2>1 DEF Submit, server
  <2>3. /\ sent'[k] = [to |-> open, files |-> chips, text |-> text, answer |-> "none"]
        /\ \A j \in Sends : j # k => sent'[j] = sent[j]
    BY <2>1 DEF Submit, TypeOK
  <2>4. InItsSession'
    BY <2>1, <2>2, <2>3 DEF InItsSession, Sent
  <2>5. ShownIsAttached'
    BY <2>2, <2>3 DEF ShownIsAttached
  <2> QED BY <2>4, <2>5
<1>7. ASSUME NEW k \in Sends, SendFailed(k) \/ Accept(k) \/ Refuse(k) PROVE ShownInv'
  <2>1. /\ UNCHANGED <<open, upload, chips, owner>> /\ sent[k] # None
        /\ sent[k] \in Message
    BY <1>7 DEF SendFailed, Accept, Refuse, TypeOK, view, server
  <2>2. PICK a \in Answers : /\ sent' = [sent EXCEPT ![k].answer = a]
                             /\ a = "ok" => Accept(k)
    BY <1>7 DEF SendFailed, Accept, Refuse
  <2>3. /\ sent'[k].to = sent[k].to /\ sent'[k].files = sent[k].files /\ sent'[k].answer = a
        /\ \A j \in Sends : j # k => sent'[j] = sent[j]
    BY <2>1, <2>2 DEF TypeOK, Message
  <2>4. InItsSession'
    BY <2>1, <2>3 DEF InItsSession, Sent
  <2>5. CASE Accept(k)
    <3>1. attached'[k] = sent[k].files
      BY <2>1, <2>5 DEF Accept, Materialize, InItsSession, TypeOK, Sent
    <3>2. \A j \in Sends : j # k => attached'[j] = attached[j]
      BY <2>5 DEF Accept, TypeOK
    <3> QED BY <2>3, <2>4, <3>1, <3>2 DEF ShownIsAttached
  <2>6. CASE ~Accept(k)
    <3>1. attached' = attached /\ a # "ok"
      BY <1>7, <2>2, <2>6 DEF SendFailed, Refuse, server
    <3> QED BY <2>3, <2>4, <3>1 DEF ShownIsAttached
  <2> QED BY <2>5, <2>6
<1>8. CASE UNCHANGED vars
  BY <1>8 DEF vars, view, server, InItsSession, ShownIsAttached, Sent
<1> QED BY <1>1, <1>2, <1>3, <1>4, <1>5, <1>6, <1>7, <1>8 DEF Next

(* The bubble of an accepted message shows what its turn was given, for a  *)
(* user who does not leave a session with files in the composer.           *)
THEOREM BubbleIsTrue == ASSUME ~Switches PROVE Spec => []ShownIsAttached
<1>1. Init => ShownInv
  BY PlaceInit DEF Init, ShownInv, InItsSession, ShownIsAttached, Sent
<1>2. ShownInv /\ PlaceInv' /\ [Next]_vars => ShownInv'
  BY ShownStep
<1>3. ShownInv => ShownIsAttached
  BY DEF ShownInv
<1> QED BY <1>1, <1>2, <1>3, PlaceInvariant, PTL DEF Spec
=============================================================================
