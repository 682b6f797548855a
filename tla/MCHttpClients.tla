---------------------------- MODULE MCHttpClients ----------------------------
(***************************************************************************)
(* The two clients of the HTTP server, one or the other: the control page of  *)
(* the app, and the upload page of the browser.                             *)
(***************************************************************************)
EXTENDS MCAcControlApp, MCFileUpload

(* The user has made all his taps, and the page shows the server's settings. *)
NoControl ==
  /\ settingsState = StoredSettings /\ server = StoredSettings
  /\ debounceJob = "none" /\ debouncedSettings = {} /\ count = Zero
  /\ posts = EmptyBag /\ strays = EmptyBag /\ answered = EmptyBag
  /\ gets = 0 /\ answers = <<>>
  /\ tapped = MaxTaps /\ taps = Zero /\ applied = Zero
  /\ resends = 0 /\ resent = Zero /\ disturbed = FALSE

(* The user has tried often enough. *)
NoUpload ==
  /\ size = [f \in Files |-> 0]
  /\ page = "ready" /\ fileIndex = 1 /\ request = {} /\ response = 0
  /\ upload = "none" /\ file = Package[1] /\ remaining = 0 /\ connection = "closed"
  /\ disk = [f \in Files |-> "absent"]
  /\ tries = MaxTries /\ rebooted = FALSE

ControlPage == ControlNext /\ UNCHANGED vars

UploadPage == Next /\ UNCHANGED control_vars

ClientsSpec ==
  /\ (ControlInit /\ NoUpload) \/ (Init /\ NoControl)
  /\ [][ControlPage \/ UploadPage]_<<control_vars, vars>>
  /\ ControlFairness /\ Fairness
=============================================================================
