-------------------------- MODULE FileUploadProofs --------------------------
(***************************************************************************)
(* Proofs about FileUpload, for every package, all sizes and limits.  The    *)
(* page, the request, the upload and the response form one chain: at most   *)
(* one of request, upload and response belongs to the file the page waits    *)
(* for, and an upload that outlived its connection belongs to an earlier      *)
(* attempt, which holds the new one back at its first file.                  *)
(***************************************************************************)
EXTENDS FileUpload, TLAPS

Current == Package[fileIndex]

(* The connection of the upload has not ended. *)
Connected == upload = "receiving" /\ connection \in {"up", "silent"}

Chain ==
  /\ request # {} => page = "waiting" /\ request = {Current} /\ response = 0
  /\ response # 0 => page = "waiting" /\ upload = "none"
  /\ Connected => page = "waiting" /\ request = {} /\ file = Current
  /\ upload # "none" /\ page \in {"sending", "waiting", "success"}
       => \/ fileIndex = 1 /\ page # "success"
          \/ page = "waiting" /\ request = {} /\ file = Current
  /\ page = "waiting" => fileIndex <= Len(Package)

(* What is received while an attempt runs.  A package may name a file twice.    *)
Arrived ==
  /\ page = "sending" => \A i \in 1..(fileIndex - 1) : disk[Package[i]] \in Received
  /\ page = "waiting" => \A i \in 1..(fileIndex - 1) :
       disk[Package[i]] \in Received \/ Package[i] = Current
  /\ response = 200 => disk[Current] \in Received
  /\ page = "success" => \A f \in Files : disk[f] \in Received

(* Only the file being received is in part on the disk. *)
Whole ==
  ~rebooted => \A f \in Files :
    disk[f] = "partial" => upload # "none" /\ f = file

Inv == TypeOK /\ Chain /\ Arrived

-----------------------------------------------------------------------------
(* The package is a sequence of at least one of its files. *)
LEMMA PackageFacts ==
  /\ Len(Package) \in Nat /\ Len(Package) >= 1
  /\ \A i \in 1..Len(Package) : Package[i] \in Files
  /\ \A f \in Files : \E i \in 1..Len(Package) : f = Package[i]
BY FileUploadAssumption DEF Files

(* The bounds are numbers, and a connection breaks in one of three ways. *)
LEMMA LimitFacts ==
  /\ ServerLimit \in Nat /\ Sizes \subseteq Nat
  /\ Broken \subseteq {"closed", "reset", "silent"}
BY FileUploadAssumption

(* The types but for the history of restarts. *)
Types ==
  /\ size \in [Files -> Sizes]
  /\ page \in {"ready", "sending", "waiting", "success", "error"}
  /\ fileIndex \in 1..(Len(Package) + 1)
  /\ request \subseteq Files /\ file \in Files
  /\ upload \in {"none", "receiving", "crashed"}
  /\ connection \in {"up", "closed", "reset", "silent"}
  /\ response \in {0, 200, 400, 500}
  /\ remaining \in 0..ServerLimit
  /\ disk \in [Files -> {"old", "absent", "partial", "cut", "new"}]

(* The page and the server start within their types. *)
LEMMA TypeInit == Init => TypeOK
<1> SUFFICES ASSUME Init PROVE TypeOK
  OBVIOUS
<1>1. rebooted \in BOOLEAN
  BY DEF Init
<1>2. disk \in [Files -> {"old", "absent", "partial", "cut", "new"}]
  BY DEF Init
<1>3. file \in Files /\ fileIndex \in 1..(Len(Package) + 1)
  BY PackageFacts DEF Init
<1>4. remaining \in 0..ServerLimit
  BY FileUploadAssumption DEF Init
<1> QED BY <1>1, <1>2, <1>3, <1>4 DEF Init, TypeOK

(* A step keeps the types; the chain bounds the index of uploadFile. *)
LEMMA TypeStep == ASSUME TypeOK, Chain, [Next]_vars PROVE TypeOK'
<1> USE DEF Types, page_vars, server_vars
<1>0. Types
  BY DEF TypeOK
<1>1. ASSUME Pick PROVE Types'
  BY <1>0, <1>1 DEF Pick
<1>2. ASSUME UploadFile PROVE Types'
  <2>1. fileIndex <= Len(Package) => Package[fileIndex] \in Files
    BY <1>0, PackageFacts
  <2> QED BY <1>0, <1>2, <2>1 DEF UploadFile
<1>3. ASSUME PageAnswered PROVE Types'
  <2>1. fileIndex <= Len(Package)
    BY <1>3 DEF PageAnswered, Chain
  <2>2. fileIndex' \in {fileIndex, fileIndex + 1}
    BY <1>3 DEF PageAnswered, NextFile
  <2>3. fileIndex' \in 1..(Len(Package) + 1)
    BY <1>0, <2>1, <2>2, PackageFacts
  <2> QED BY <1>0, <1>3, <2>3 DEF PageAnswered, NextFile
<1>4. ASSUME Begin PROVE Types'
  <2>1. PICK f \in request :
         \/ response' \in {400, 500} /\ UNCHANGED <<server_vars, connection, disk>>
         \/ /\ ~TooLarge(f)
            /\ upload' = "receiving" /\ file' = f /\ remaining' = size[f]
            /\ connection' = "up"
            /\ disk' = [disk EXCEPT ![f] = "partial"]
            /\ UNCHANGED response
    BY <1>4 DEF Begin
  <2>2. f \in Files /\ (~TooLarge(f) => size[f] \in 0..ServerLimit)
    <3>1. f \in Files
      BY <1>0
    <3>2. size[f] \in Sizes
      BY <1>0, <3>1
    <3>3. size[f] \in Nat /\ ServerLimit \in Nat
      BY <3>2, LimitFacts
    <3> HIDE DEF Types
    <3>4. ~TooLarge(f) => size[f] \in 0..ServerLimit
      BY <3>3 DEF TooLarge
    <3> QED BY <3>1, <3>4
  <2>3. UNCHANGED <<size, page, fileIndex>> /\ request' = {}
    BY <1>4 DEF Begin
  <2>4. disk' \in {disk, [disk EXCEPT ![f] = "partial"]} /\ remaining' \in 0..ServerLimit
    BY <1>0, <2>1, <2>2
  <2>5. /\ upload' \in {"none", "receiving", "crashed"} /\ file' \in Files
        /\ connection' \in {"up", "closed", "reset", "silent"}
        /\ response' \in {0, 200, 400, 500}
    BY <1>0, <2>1, <2>2
  <2> QED BY <1>0, <2>2, <2>3, <2>4, <2>5
<1>5. ASSUME Receive PROVE Types'
  <2>1. remaining' \in 0..ServerLimit
    BY <1>0, <1>5, LimitFacts DEF Receive, GiveUp
  <2>2. upload' \in {"none", "receiving"} /\ response' \in {response, 500}
    BY <1>0, <1>5 DEF Receive, GiveUp, Respond
  <2>3. disk' \in {disk, [disk EXCEPT ![file] = "absent"]}
    BY <1>5 DEF Receive, GiveUp, Discarded
  <2>4. UNCHANGED <<size, page, fileIndex, request, file, connection>>
    BY <1>5 DEF Receive
  <2> QED BY <1>0, <2>1, <2>2, <2>3, <2>4
<1>6. ASSUME ReceiveClosed PROVE Types'
  BY <1>0, <1>6 DEF ReceiveClosed, GiveUp, Discarded, Respond
<1>7. ASSUME ReceiveReset \/ ReceiveTimeout PROVE Types'
  BY <1>0, <1>7 DEF ReceiveReset, ReceiveTimeout, Negative, GiveUp, Discarded, Respond
<1>8. ASSUME Finish PROVE Types'
  BY <1>0, <1>8 DEF Finish, Respond
<1>9. ASSUME Reboot PROVE Types'
  BY <1>0, <1>9 DEF Reboot
<1>10. ASSUME Silence PROVE Types'
  BY <1>0, <1>10 DEF Silence
<1>11. ASSUME NEW how \in Broken, Break(how) PROVE Types'
  BY <1>0, <1>11, LimitFacts DEF Break
<1>12. ASSUME UNCHANGED vars PROVE Types'
  BY <1>0, <1>12 DEF vars
<1>13. Types'
  BY <1>1, <1>2, <1>3, <1>4, <1>5, <1>6, <1>7, <1>8, <1>9, <1>10, <1>11, <1>12
  DEF Next, Page, Server
<1>14. rebooted' \in BOOLEAN
  <2>1. rebooted' = TRUE \/ rebooted' = rebooted
    BY DEF Next, Page, Server, Pick, UploadFile, PageAnswered, Begin, Receive,
      ReceiveClosed, ReceiveReset, ReceiveTimeout, Finish, Reboot, Silence, Break, vars
  <2> QED BY <2>1 DEF TypeOK
<1> QED BY <1>13, <1>14 DEF TypeOK

-----------------------------------------------------------------------------
(* A step of the page, the server or the network keeps the chain. *)
LEMMA ChainStep == ASSUME TypeOK, Chain, [Next]_vars PROVE Chain'
<1> USE PackageFacts DEF Chain, Current, Connected, page_vars, server_vars
<1>1. CASE Pick
  BY <1>1 DEF Pick
<1>2. CASE UploadFile
  BY <1>2 DEF UploadFile, TypeOK
<1>3. CASE PageAnswered
  BY <1>3 DEF PageAnswered, NextFile
<1>4. CASE Begin
  BY <1>4 DEF Begin
<1>5. CASE Receive
  BY <1>5 DEF Receive, GiveUp, Respond
<1>6. CASE ReceiveClosed
  BY <1>6 DEF ReceiveClosed, GiveUp, Respond
<1>7. CASE ReceiveReset
  BY <1>7 DEF ReceiveReset, Negative, GiveUp, Respond
<1>8. CASE ReceiveTimeout
  BY <1>8 DEF ReceiveTimeout, Negative, GiveUp, Respond
<1>9. CASE Finish
  BY <1>9 DEF Finish, Respond
<1>10. CASE Reboot
  BY <1>10 DEF Reboot
<1>11. CASE Silence
  BY <1>11 DEF Silence
<1>12. CASE \E how \in Broken : Break(how)
  BY <1>12, LimitFacts DEF Break, TypeOK
<1>13. CASE UNCHANGED vars
  BY <1>13 DEF vars
<1> QED
  BY <1>1, <1>2, <1>3, <1>4, <1>5, <1>6, <1>7, <1>8, <1>9, <1>10, <1>11, <1>12, <1>13
  DEF Next, Page, Server

(* A step keeps what was received: an upload that is given up is not one of a  *)
(* file that was counted before, and the current one is counted at the 200.   *)
LEMMA ArrivedStep == ASSUME TypeOK, Chain, Arrived, [Next]_vars PROVE Arrived'
<1> USE PackageFacts DEF Chain, Arrived, Received, Current, Connected, page_vars, server_vars
<1>1. CASE Pick
  BY <1>1 DEF Pick
<1>2. CASE UploadFile
  <2>1. CASE fileIndex > Len(Package)
    <3>1. page' = "success" /\ response' = 0 /\ disk' = disk
      BY <1>2, <2>1 DEF UploadFile, TypeOK
    <3>2. \A i \in 1..Len(Package) : disk[Package[i]] \in Received
      BY <1>2, <2>1 DEF UploadFile, TypeOK
    <3> QED BY <3>1, <3>2
  <2>2. CASE fileIndex <= Len(Package)
    BY <1>2, <2>2 DEF UploadFile, TypeOK
  <2> QED BY <2>1, <2>2 DEF TypeOK
<1>3. CASE PageAnswered
  BY <1>3 DEF PageAnswered, NextFile, TypeOK
<1>4. CASE Begin
  BY <1>4 DEF Begin, TypeOK
<1>5. CASE Receive
  BY <1>5 DEF Receive, GiveUp, Respond, Discarded, TypeOK
<1>6. CASE ReceiveClosed
  BY <1>6 DEF ReceiveClosed, GiveUp, Respond, Discarded, TypeOK
<1>7. CASE ReceiveReset
  BY <1>7 DEF ReceiveReset, Negative, GiveUp, Respond, Discarded, TypeOK
<1>8. CASE ReceiveTimeout
  BY <1>8 DEF ReceiveTimeout, Negative, GiveUp, Respond, Discarded, TypeOK
<1>9. CASE Finish
  BY <1>9 DEF Finish, Respond, TypeOK
<1>10. CASE Reboot
  BY <1>10 DEF Reboot
<1>11. CASE Silence
  BY <1>11 DEF Silence
<1>12. CASE \E how \in Broken : Break(how)
  BY <1>12, LimitFacts DEF Break, TypeOK
<1>13. CASE UNCHANGED vars
  BY <1>13 DEF vars
<1> QED
  BY <1>1, <1>2, <1>3, <1>4, <1>5, <1>6, <1>7, <1>8, <1>9, <1>10, <1>11, <1>12, <1>13
  DEF Next, Page, Server

(* Types, chain and what was received hold together in every state. *)
LEMMA InvAlways == Spec => []Inv
<1>1. Init => Inv
  <2>1. Init => Chain /\ Arrived
    BY PackageFacts DEF Init, Chain, Arrived, Current, Connected
  <2> QED BY <2>1, TypeInit DEF Inv
<1>2. Inv /\ [Next]_vars => Inv'
  BY TypeStep, ChainStep, ArrivedStep DEF Inv
<1> QED BY <1>1, <1>2, PTL DEF Spec

-----------------------------------------------------------------------------
(* upload.js and upload_file keep their types; the index of uploadFile stays  *)
(* within the package or one past it.                                        *)
THEOREM TypeCorrect == Spec => []TypeOK
<1>1. Inv => TypeOK
  BY DEF Inv
<1> QED BY <1>1, InvAlways, PTL

(* "File upload successful" (upload.js:97) is only said of a package that the  *)
(* server has received to the end, whatever failed and however often the user *)
(* tried; whether fclose then stored it nobody asks (http_file_ops.c:213).    *)
THEOREM SuccessIsReceived == Spec => []SuccessMeansReceived
<1>1. Inv => SuccessMeansReceived
  BY DEF Inv, Arrived, SuccessMeansReceived
<1> QED BY <1>1, InvAlways, PTL

(* A server that is not receiving keeps no file that was not received to the   *)
(* end, as long as the program survives (http_file_ops.c:192, 203).           *)
THEOREM NoneHalfReceived == Spec => []NoHalfReceived
<1>1. Init => Whole
  BY DEF Init, Whole
<1>2. Inv /\ Whole /\ [Next]_vars => Whole'
  <2> SUFFICES ASSUME Inv, Whole, [Next]_vars PROVE Whole'
    OBVIOUS
  <2> USE DEF Whole, Inv, TypeOK, page_vars, server_vars
  <2>1. CASE Begin
    BY <2>1 DEF Begin
  <2>2. CASE Receive \/ ReceiveClosed
    BY <2>2 DEF Receive, ReceiveClosed, GiveUp, Discarded
  <2>3. CASE ReceiveReset \/ ReceiveTimeout
    BY <2>3 DEF ReceiveReset, ReceiveTimeout, Negative, GiveUp, Discarded
  <2>4. CASE Finish
    BY <2>4 DEF Finish
  <2>5. CASE Reboot
    BY <2>5 DEF Reboot
  <2>6. CASE Pick \/ UploadFile \/ PageAnswered \/ Silence
    BY <2>6 DEF Pick, UploadFile, PageAnswered, Silence
  <2>7. CASE \E how \in Broken : Break(how)
    BY <2>7 DEF Break
  <2>8. CASE UNCHANGED vars
    BY <2>8 DEF vars
  <2> QED
    BY <2>1, <2>2, <2>3, <2>4, <2>5, <2>6, <2>7, <2>8 DEF Next, Page, Server
<1>3. Whole => NoHalfReceived
  BY DEF Whole, NoHalfReceived
<1> QED BY <1>1, <1>2, <1>3, InvAlways, PTL DEF Spec
=============================================================================
