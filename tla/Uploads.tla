------------------------------ MODULE Uploads ------------------------------
(* Files of the user, from the composer to the prompt.  The composer        *)
(* (composer.js) uploads what is picked to the session then open, keeps the *)
(* answer as chips and sends their ids with the next message; the server    *)
(* (main.py, grokoo_session) stores them as attachments of that session and *)
(* as files in its uploads directory, and lists in the prompt those that    *)
(* belong to the session of the message.  The composer is one component for *)
(* all sessions of the view: switching leaves its chips as they are.        *)
EXTENDS Integers, FiniteSets

CONSTANTS
  Sessions,
  Files,     \* picked files; each becomes at most one attachment
  Bad,       \* those _store_upload refuses: type, size, empty
  MaxSends,  \* messages sent (bounds the behaviour)
  Switches,  \* may the user switch sessions while the composer has files?
  None

ASSUME UploadsAssumption ==
  Bad \subseteq Files /\ MaxSends \in Nat /\ Switches \in BOOLEAN

VARIABLES
  open,     \* the session of the view
  busy,     \* its composer is disabled
  chips,    \* the composer's files
  upload,   \* the upload under way: to, files and its answer; or None
  picked,   \* files picked so far
  owner,    \* the session an attachment belongs to, None before it is stored
  disk,     \* attachments whose file is in the uploads directory
  running,  \* sessions whose row is running
  sent,     \* messages sent: to, files shown in the bubble, text, answer
  attached  \* the attachments of an accepted message, listed in its prompt

view   == <<open, busy, chips, upload, picked>>
server == <<owner, disk, running, attached>>
vars   == <<view, server, sent>>

Answers == {"none", "ok", "error", "told"}
Sends   == 1..MaxSends
Upload  == [to : Sessions, files : SUBSET Files, answer : Answers]
Message == [to : Sessions, files : SUBSET Files, text : BOOLEAN, answer : Answers]

ASSUME NoneAssumption == None \notin Sessions \cup Upload \cup Message

TypeOK ==
  /\ open \in Sessions /\ busy \in BOOLEAN /\ chips \subseteq picked /\ picked \subseteq Files
  /\ upload \in Upload \cup {None} /\ owner \in [Files -> Sessions \cup {None}]
  /\ \A f \in chips : owner[f] # None
  /\ disk \subseteq picked /\ running \subseteq Sessions
  /\ sent \in [Sends -> Message \cup {None}]
  /\ attached \in [Sends -> SUBSET Files]

Init ==
  /\ open \in Sessions /\ busy = FALSE /\ chips = {} /\ upload = None /\ picked = {}
  /\ owner = [f \in Files |-> None] /\ disk = {} /\ running = {}
  /\ sent = [k \in Sends |-> None]
  /\ attached = [k \in Sends |-> {}]

-----------------------------------------------------------------------------
(* The composer.                                                            *)
(* onFilesChosen, up to its fetch.  The button is off while one is running. *)
Pick ==
  /\ ~busy /\ upload = None
  /\ \E fs \in (SUBSET (Files \ picked)) \ {{}} :
       /\ upload' = [to |-> open, files |-> fs, answer |-> "none"]
       /\ picked' = picked \cup fs
  /\ UNCHANGED <<open, busy, chips, server, sent>>

(* onFilesChosen, after its fetch: whatever session is open by now.         *)
Uploaded ==
  /\ upload # None /\ upload.answer # "none" /\ upload' = None
  /\ chips' = IF upload.answer = "ok" THEN chips \cup upload.files ELSE chips
  /\ UNCHANGED <<open, busy, picked, server, sent>>

RemoveFile ==
  /\ \E f \in chips : chips' = chips \ {f}
  /\ UNCHANGED <<open, busy, upload, picked, server, sent>>

(* _openSession of the view; the new session may be running.                *)
Switch ==
  /\ Switches \/ (chips = {} /\ upload = None)
  /\ \E s \in Sessions \ {open} : open' = s /\ busy' = (s \in running)
  /\ UNCHANGED <<chips, upload, picked, server, sent>>

Submit(k, text) ==
  /\ ~busy /\ upload = None /\ (text \/ chips # {})
  /\ sent[k] = None /\ \A j \in 1..k - 1 : sent[j] # None
  /\ sent' = [sent EXCEPT ![k] =
                [to |-> open, files |-> chips, text |-> text, answer |-> "none"]]
  /\ busy' = TRUE /\ UNCHANGED <<open, upload, picked, server>>

(* Slip: the chips stay.                                                    *)
SendKeepsFiles(k) == \E text \in BOOLEAN : Submit(k, text) /\ UNCHANGED chips

(* _send and onSend: text and chips are cleared before the server answers.  *)
Send(k) == \E text \in BOOLEAN : Submit(k, text) /\ chips' = {}

(* onSend's catch, whatever session is open by now: the bubble and the      *)
(* cleared composer stay as they are.                                       *)
SendFailed(k) ==
  /\ sent[k] # None /\ sent[k].answer = "error" /\ busy' = FALSE
  /\ sent' = [sent EXCEPT ![k].answer = "told"]
  /\ UNCHANGED <<open, chips, upload, picked, server>>

-----------------------------------------------------------------------------
(* The server.                                                              *)
(* Slip: the attachment is not linked to its session.                       *)
StoreUnlinked(fs) == owner' = owner /\ disk' = disk \cup fs

(* _store_upload of the files fs: attachment and file.                      *)
Store(fs) ==
  /\ owner' = [f \in Files |-> IF f \in fs THEN upload.to ELSE owner[f]]
  /\ disk' = disk \cup fs

(* The route stores one file after the other.  A refused file ends that     *)
(* with an error object, and what came before it is committed.              *)
ServeUpload ==
  /\ upload # None /\ upload.answer = "none"
  /\ \/ /\ upload.files \cap Bad = {} /\ Store(upload.files)
        /\ upload' = [upload EXCEPT !.answer = "ok"]
     \/ /\ upload.files \cap Bad # {} /\ \E fs \in SUBSET (upload.files \ Bad) : Store(fs)
        /\ upload' = [upload EXCEPT !.answer = "error"]
  /\ UNCHANGED <<open, busy, chips, picked, running, attached, sent>>

(* The request is lost: rolled back, its files left on disk; or committed,  *)
(* its answer lost.                                                         *)
UploadLost ==
  /\ upload # None /\ upload.answer = "none"
  /\ upload' = [upload EXCEPT !.answer = "error"]
  /\ \E fs \in SUBSET (upload.files \ Bad) :
       Store(fs) \/ (disk' = disk \cup fs /\ UNCHANGED owner)
  /\ UNCHANGED <<open, busy, chips, picked, running, attached, sent>>

(* Slip: a file that was written once is not written again.                 *)
MaterializeNever(s, fs) == [own |-> {f \in fs : owner[f] = s}, written |-> {}]

(* _materialize_attachments: those of this session, written to disk afresh. *)
Materialize(s, fs) ==
  LET own == {f \in fs : owner[f] = s} IN [own |-> own, written |-> own]

(* send_message.                                                            *)
Accept(k) ==
  LET m == sent[k]
      a == Materialize(m.to, m.files)
  IN
  /\ m # None /\ m.answer = "none" /\ m.to \notin running
  /\ m.text \/ a.own # {}
  /\ running' = running \cup {m.to} /\ disk' = disk \cup a.written
  /\ attached' = [attached EXCEPT ![k] = a.own]
  /\ sent' = [sent EXCEPT ![k].answer = "ok"]
  /\ UNCHANGED <<view, owner>>

(* Running, busy, not connected, empty, or the request is lost.             *)
Refuse(k) ==
  /\ sent[k] # None /\ sent[k].answer = "none"
  /\ sent' = [sent EXCEPT ![k].answer = "error"] /\ UNCHANGED <<view, server>>

(* The turn is over; a view of its session hears of it.                     *)
TurnEnds ==
  /\ \E s \in running : running' = running \ {s} /\ busy' = (busy /\ open # s)
  /\ UNCHANGED <<open, chips, upload, picked, owner, disk, attached, sent>>

(* The scratch directory is cleaned.                                        *)
Wipe ==
  /\ disk # {} /\ disk' = {}
  /\ UNCHANGED <<view, owner, running, attached, sent>>

Next ==
  \/ Pick \/ Uploaded \/ RemoveFile \/ Switch
  \/ ServeUpload \/ UploadLost \/ TurnEnds \/ Wipe
  \/ \E k \in Sends : Send(k) \/ SendFailed(k) \/ Accept(k) \/ Refuse(k)

Spec == Init /\ [][Next]_vars

(***************************************************************************)
(* Properties                                                              *)
(***************************************************************************)
(* The prompt tells the model it "may read" the files it lists: when a     *)
(* turn is launched each of them is in the uploads directory, though the   *)
(* upload is long past and the directory was cleaned meanwhile.            *)
ListedFilesExist ==
  [][\A k \in Sends : Accept(k) => attached'[k] \subseteq disk']_vars

(* A file goes out with one message: not again with the next, whatever     *)
(* fails, is refused or overlaps.                                          *)
AttachedOnce == \A j, k \in Sends : j # k => attached[j] \cap attached[k] = {}

(* What the user saw in the bubble is what the model is given.  Needs a    *)
(* user who does not switch sessions with files in the composer.           *)
ShownIsAttached ==
  \A k \in Sends : sent[k] # None /\ sent[k].answer = "ok" => attached[k] = sent[k].files

(* A refused or failed upload leaves nothing behind; the code does not     *)
(* keep to this.                                                           *)
NoOrphans ==
  upload # None /\ upload.answer = "error" => \A f \in upload.files : owner[f] = None
=============================================================================
