----------------------------- MODULE FileUpload -----------------------------
(***************************************************************************)
(* Uploading a package of files: the page (html/upload.js), the connection  *)
(* and upload_file of the server (http_file_ops.c).  Sizes are counted in    *)
(* chunks of FILE_BUF_SIZE.                                                  *)
(*                                                                         *)
(* The server's task serves one connection at a time and is held by an        *)
(* upload until the file is complete or reading or writing fails.  The file  *)
(* is written in place.                                                     *)
(***************************************************************************)
EXTENDS Integers, Sequences

CONSTANTS Package,          \* the files of the package, in the order of the list
          Sizes,            \* bound: their possible sizes
          PageLimit,        \* MAX_FILE_SIZE of upload.js
          ServerLimit,      \* MAX_FILE_SIZE of http_file_ops.c
          MaxTries,         \* bound: times the user starts the upload
          Broken            \* how a connection may fail: it is closed or reset
                            \* before the end, or stays open and falls silent

Files == {Package[i] : i \in DOMAIN Package}

ASSUME FileUploadAssumption ==
  /\ Package \in Seq(Files) /\ Package # <<>>
  /\ Sizes \subseteq Nat /\ PageLimit \in Nat /\ ServerLimit \in Nat
  /\ MaxTries \in Nat /\ Broken \subseteq {"closed", "reset", "silent"}

VARIABLES
  size,                     \* of each file of the package
  page,                     \* "ready", "sending", "waiting", "success" or "error"
  fileIndex,                \* of uploadFile
  request,                  \* a set: the file whose POST the server has not begun
  upload,                   \* "none", "receiving", "crashed"
  file, remaining,          \* of the upload
  connection,               \* of the upload: "up", or one of Broken
  response,                 \* status on its way to the page, 0 for none
  disk,                     \* each file: "old", "absent", "partial", "new", or
                            \* "cut": received to its end, the tail not flushed
  tries, rebooted           \* history: attempts; whether the server restarted

page_vars == <<page, fileIndex, tries>>
server_vars == <<upload, file, remaining>>
vars == <<size, page, fileIndex, request, upload, file, remaining, connection,
          response, disk, tries, rebooted>>

Init ==
  /\ size \in [Files -> Sizes]
  /\ page = "ready" /\ fileIndex = 1
  /\ request = {} /\ response = 0
  /\ upload = "none" /\ file = Package[1] /\ remaining = 0 /\ connection = "closed"
  /\ disk \in [Files -> {"old", "absent"}]
  /\ tries = 0 /\ rebooted = FALSE
-----------------------------------------------------------------------------
(* The page.                                                               *)

(* The user picks the files; after an alert the form is ready again. *)
Pick ==
  /\ page \in {"ready", "success", "error"}
  /\ tries < MaxTries
  /\ tries' = tries + 1
  /\ page' = "sending" /\ fileIndex' = 1
  /\ UNCHANGED <<size, request, server_vars, connection, response, disk, rebooted>>

(* uploadFile *)
UploadFile ==
  /\ page = "sending"
  /\ \/ /\ fileIndex > Len(Package)
        /\ page' = "success"
        /\ UNCHANGED request
     \/ /\ fileIndex <= Len(Package)
        /\ size[Package[fileIndex]] > PageLimit
        /\ page' = "error"
        /\ UNCHANGED request
     \/ /\ fileIndex <= Len(Package)
        /\ size[Package[fileIndex]] <= PageLimit
        /\ page' = "waiting"
        /\ request' = {Package[fileIndex]}
  /\ UNCHANGED <<size, fileIndex, tries, server_vars, connection, response, disk, rebooted>>

(* A plausible slip: whatever the answer, the next file follows. *)
NextFileAlways ==
  /\ page' = "sending"
  /\ fileIndex' = fileIndex + 1

(* onreadystatechange *)
NextFile ==
  \/ /\ response = 200
     /\ page' = "sending"
     /\ fileIndex' = fileIndex + 1
  \/ /\ response # 200
     /\ page' = "error"
     /\ UNCHANGED fileIndex

PageAnswered ==
  /\ page = "waiting"
  /\ response # 0
  /\ NextFile
  /\ response' = 0
  /\ UNCHANGED <<size, tries, request, server_vars, connection, disk, rebooted>>

(* The connection ends early: the page sees status 0, the server a closed or  *)
(* a reset connection once it reads from it.                                 *)
Break(how) ==
  /\ page = "waiting" /\ how # "silent"
  /\ page' = "error"
  /\ request' = {} /\ response' = 0
  /\ connection' = IF upload = "receiving" /\ request = {} /\ response = 0
                   THEN how ELSE connection
  /\ UNCHANGED <<size, fileIndex, tries, server_vars, disk, rebooted>>

(* The connection falls silent while the file is sent, or recovers. *)
Silence ==
  /\ "silent" \in Broken /\ upload = "receiving" /\ remaining > 0
  /\ \/ connection = "up" /\ connection' = "silent"
     \/ connection = "silent" /\ connection' = "up"
  /\ UNCHANGED <<size, page_vars, request, server_vars, response, disk, rebooted>>
-----------------------------------------------------------------------------
(* The server: upload_file.                                                *)

Respond(status) ==
  response' = IF connection \in {"up", "silent"} THEN status ELSE response

TooLarge(f) == size[f] > ServerLimit

(* Up to the loop: the size is tested, the file opened for writing. *)
Begin ==
  /\ upload = "none"
  /\ \E f \in request :
       \/ /\ TooLarge(f)
          /\ response' = 400
          /\ UNCHANGED <<server_vars, connection, disk>>
       \/ /\ ~TooLarge(f)
          /\ response' = 500           \* fopen failed
          /\ UNCHANGED <<server_vars, connection, disk>>
       \/ /\ ~TooLarge(f)
          /\ upload' = "receiving" /\ file' = f /\ remaining' = size[f]
          /\ connection' = "up"
          /\ disk' = [disk EXCEPT ![f] = "partial"]
          /\ UNCHANGED response
  /\ request' = {}
  /\ UNCHANGED <<size, page_vars, rebooted>>

(* A plausible slip: what was received stays on the disk. *)
DiscardedNot == disk

(* Closing and unlinking the file. *)
Discarded == [disk EXCEPT ![file] = "absent"]

GiveUp ==
  /\ disk' = Discarded
  /\ upload' = "none"
  /\ Respond(500)

(* A chunk arrives; its fwrite may fail. *)
Receive ==
  /\ upload = "receiving" /\ remaining > 0 /\ connection = "up"
  /\ \/ /\ remaining' = remaining - 1
        /\ UNCHANGED <<upload, disk, response>>
     \/ /\ GiveUp
        /\ UNCHANGED remaining
  /\ UNCHANGED <<size, page_vars, request, file, connection, rebooted>>

(* A plausible slip: the end of the stream is taken for no data yet. *)
ReceiveClosedAgain ==
  /\ upload = "receiving" /\ remaining > 0 /\ connection = "closed"
  /\ UNCHANGED vars

(* httpd_req_recv returned 0. *)
ReceiveClosed ==
  /\ upload = "receiving" /\ remaining > 0 /\ connection = "closed"
  /\ GiveUp
  /\ UNCHANGED <<size, page_vars, request, file, remaining, connection, rebooted>>

(* httpd_req_recv returned a negative number, that of a timeout included: in  *)
(* the unsigned "received" it is a length, not an error.  fwrite of so many   *)
(* bytes runs out of the buffer and crashes, or writes less than that.        *)
Negative ==
  \/ GiveUp
  \/ /\ upload' = "crashed"
     /\ UNCHANGED <<disk, response>>

ReceiveReset ==
  /\ upload = "receiving" /\ remaining > 0 /\ connection = "reset"
  /\ Negative
  /\ UNCHANGED <<size, page_vars, request, file, remaining, connection, rebooted>>

ReceiveTimeout ==
  /\ upload = "receiving" /\ remaining > 0 /\ connection = "silent"
  /\ Negative
  /\ UNCHANGED <<size, page_vars, request, file, remaining, connection, rebooted>>

(* The last of the buffer is written by fclose, whose result is not looked    *)
(* at: the answer is 200 whether or not it reached the disk.                 *)
Finish ==
  /\ upload = "receiving" /\ remaining = 0
  /\ \E stored \in {"new"} \cup {s \in {"cut"} : size[file] > 0} :
       disk' = [disk EXCEPT ![file] = stored]
  /\ upload' = "none"
  /\ Respond(200)
  /\ UNCHANGED <<size, page_vars, request, file, remaining, connection, rebooted>>

(* The server restarts; all connections are gone. *)
Reboot ==
  /\ upload = "crashed"
  /\ upload' = "none"
  /\ connection' = "closed" /\ request' = {} /\ response' = 0
  /\ page' = IF page = "waiting" THEN "error" ELSE page
  /\ rebooted' = TRUE
  /\ UNCHANGED <<size, fileIndex, tries, file, remaining, disk>>

Server == Begin \/ Receive \/ ReceiveClosed \/ ReceiveReset \/ ReceiveTimeout
          \/ Finish \/ Reboot

Page == UploadFile \/ PageAnswered

Next == Pick \/ Page \/ Server \/ Silence \/ \E how \in Broken : Break(how)

Spec == Init /\ [][Next]_vars

(* The page and the server go on; the network owes nothing but that a read    *)
(* ends: with data, an error or, when the connection is silent, a timeout.   *)
Fairness == WF_vars(Page) /\ WF_vars(Server)
-----------------------------------------------------------------------------
(* Properties.                                                             *)

TypeOK ==
  /\ size \in [Files -> Sizes]
  /\ page \in {"ready", "sending", "waiting", "success", "error"}
  /\ fileIndex \in 1..(Len(Package) + 1)
  /\ request \subseteq Files /\ file \in Files
  /\ upload \in {"none", "receiving", "crashed"}
  /\ connection \in {"up", "closed", "reset", "silent"}
  /\ response \in {0, 200, 400, 500}
  /\ remaining \in 0..ServerLimit
  /\ disk \in [Files -> {"old", "absent", "partial", "cut", "new"}]
  /\ rebooted \in BOOLEAN

Received == {"cut", "new"}

(* "File upload successful" (upload.js:97) is said when the server has         *)
(* received every file of the package to its end, whatever broke in this or   *)
(* an earlier attempt and although the files are uploaded one by one.        *)
SuccessMeansReceived == page = "success" => \A f \in Files : disk[f] \in Received

(* ... but not, as the page and the answer (http_file_ops.c:214, "File         *)
(* uploaded successfully") have it, that every file is stored.               *)
SuccessMeansStored == page = "success" => \A f \in Files : disk[f] = "new"

(* A server that is not receiving keeps no file it has not received to the     *)
(* end (http_file_ops.c:192, 203): whichever connections break or fall silent  *)
(* and whichever writes fail, none leaves one, as long as the program         *)
(* survives.                                                                *)
NoHalfReceived ==
  upload = "none" /\ ~rebooted => \A f \in Files : disk[f] # "partial"

(* The one task of the server is not held by an upload for ever              *)
(* (http_file_ops.c:184-211) unless its peer falls silent.                    *)
UploadEnds == (upload = "receiving") ~> (upload = "none" \/ connection = "silent")

(* A silent peer is waited for: "Retry on timeout" (http_file_ops.c:188). *)
RetriedOnTimeout ==
  [][upload = "receiving" /\ connection = "silent" => upload' = "receiving"]_vars
=============================================================================
