---------------------------- MODULE AcControlApp ----------------------------
(***************************************************************************)
(* The control page of the Android app (AcControlViewModel.kt) and the      *)
(* server it talks to.                                                     *)
(*                                                                         *)
(* A tap changes the settings on the screen at once.  Taps on the arrows    *)
(* are counted and posted together after a pause; one coroutine job         *)
(* (debounceJob) serves both this pause and the one after which settings     *)
(* fetched from the server replace the ones on the screen, so that starting  *)
(* either cancels the other.  Every POST runs in a coroutine of its own and  *)
(* is followed by a GET.                                                    *)
(*                                                                         *)
(* The HTTP client may send a request again whose connection failed          *)
(* (retryOnConnectionFailure, network/HttpClient.kt), whether or not the       *)
(* server had it, served it or answered it.                                  *)
(*                                                                         *)
(* The server serves one request at a time; IrSettings says what a command  *)
(* does to its settings.                                                    *)
(***************************************************************************)
EXTENDS IrSettings, Sequences, SequencesExt, BagsExt

CONSTANTS DirectWords,      \* the buttons that are posted at once
          CountedWords,     \* the arrows
          Servers,          \* the settings the server may have at the start
          MaxTaps,          \* bound: taps of the user
          MaxResends        \* bound: POSTs the HTTP client sends again

Settings == [power : 0..1, fields : {s \in Fields : s.temperature <= MAX_TEMP_VAL}]

ASSUME AcControlAppAssumption ==
  /\ DirectWords \subseteq {"POWER", "SWING", "COOL", "HEAT", "DRY", "FAN"}
  /\ CountedWords \subseteq {"TEMP_UP", "TEMP_DOWN", "FAN_UP", "FAN_DOWN"}
  /\ Servers \subseteq Settings
  /\ MaxTaps \in Nat /\ MaxResends \in Nat

VARIABLES
  settingsState,            \* on the screen
  debounceJob,              \* "none", "output" or "input"
  debouncedSettings,        \* a set: the fetched settings, or none
  count,                    \* tempUpCount and the other three
  posts,                    \* bag of the POSTs under way
  strays,                   \* bag of those the server has although their
                            \* connections failed: it serves them unheard
  answered,                 \* bag of the POSTs served and answered, their
                            \* coroutines about to fetch
  gets,                     \* GETs under way
  answers,                  \* settings on their way to the app
  server,                   \* the server's settings
  tapped,                   \* history: taps of the user
  taps, applied,            \* history: taps on, and steps applied for, an arrow
  resends, resent,          \* history: POSTs sent again, the steps of those for
                            \* an arrow
  disturbed                 \* history: a connection failed, or answers to GETs
                            \* came in another order than they were given in

app_vars == <<settingsState, debounceJob, debouncedSettings, count>>
resend_vars == <<resends, resent>>
count_vars == <<tapped, taps, applied, resend_vars>>
history_vars == <<count_vars, disturbed>>
control_vars == <<settingsState, debounceJob, debouncedSettings, count, posts, strays,
          answered, gets, answers, server, tapped, taps, applied, resends, resent, disturbed>>

(* The defaults of readSettingsFromSharedPrefs, temperatures less 16. *)
StoredSettings ==
  [power |-> 0, fields |-> [temperature |-> 26 - 16, fan |-> 0, swing |-> 0, mode |-> 0]]

Zero == [w \in CountedWords |-> 0]

(* init { fetchSettings() ... } *)
ControlInit ==
  /\ settingsState = StoredSettings
  /\ debounceJob = "none" /\ debouncedSettings = {}
  /\ count = Zero
  /\ posts = EmptyBag /\ strays = EmptyBag /\ answered = EmptyBag
  /\ gets = 1 /\ answers = <<>>
  /\ server \in Servers
  /\ tapped = 0 /\ taps = Zero /\ applied = Zero
  /\ resends = 0 /\ resent = Zero /\ disturbed = FALSE

(* What a command does to settings, on the screen and in the server. *)
Step(s, command) ==
  IF command.word = "POWER"
  THEN [s EXCEPT !.power = 1 - @]
  ELSE [s EXCEPT !.fields = Applied(@, command)]

(* localUpdate: one step, whatever number the command carries. *)
LocalUpdate(s, word) == Step(s, [word |-> word, delta |-> 1])

(* A plausible slip: the taps that were posted are posted again. *)
ResetNothing(n) == n

ResetCounters(n) == Zero

Post(word, delta) == SetToBag({[word |-> word, delta |-> delta]})
-----------------------------------------------------------------------------
(* The user.                                                               *)

Tapped ==
  /\ tapped < MaxTaps
  /\ tapped' = tapped + 1

(* A button: postUpdate and localUpdate. *)
TapDirect(word) ==
  /\ Tapped
  /\ posts' = posts (+) Post(word, 1)
  /\ settingsState' = LocalUpdate(settingsState, word)
  /\ UNCHANGED <<debounceJob, debouncedSettings, count, strays, answered, gets, answers,
                 server, taps, applied, resend_vars, disturbed>>

(* An arrow: onTempUp and the others, debounceOutput. *)
TapCounted(word) ==
  /\ Tapped
  /\ count' = [count EXCEPT ![word] = @ + 1]
  /\ taps' = [taps EXCEPT ![word] = @ + 1]
  /\ settingsState' = LocalUpdate(settingsState, word)
  /\ debounceJob' = "output"
  /\ UNCHANGED <<debouncedSettings, posts, strays, answered, gets, answers, server, applied,
                 resend_vars, disturbed>>
-----------------------------------------------------------------------------
(* The app's coroutines.                                                   *)

(* 500 ms after the last tap on an arrow. *)
FireOutput ==
  /\ debounceJob = "output"
  /\ posts' = posts (+) SetToBag({[word |-> w, delta |-> count[w]] :
                                  w \in {v \in CountedWords : count[v] > 0}})
  /\ count' = ResetCounters(count)
  /\ debounceJob' = "none"
  /\ UNCHANGED <<settingsState, debouncedSettings, strays, answered, gets, answers, server,
                 history_vars>>

(* 1000 ms after the last answer to a GET. *)
FireInput ==
  /\ debounceJob = "input"
  /\ settingsState' \in IF debouncedSettings = {} THEN {settingsState}
                         ELSE debouncedSettings
  /\ debouncedSettings' = {}
  /\ debounceJob' = "none"
  /\ UNCHANGED <<count, posts, strays, answered, gets, answers, server, history_vars>>

(* The coroutine of an answered POST goes on. *)
Acked == \E command \in BagToSet(answered) : answered' = answered (-) SetToBag({command})

(* A plausible slip: the screen is left as the taps made it. *)
AckPostSilent ==
  /\ Acked
  /\ UNCHANGED <<app_vars, posts, strays, gets, answers, server, history_vars>>

(* A POST was answered: fetchSettings. *)
AckPost ==
  /\ Acked
  /\ gets' = gets + 1
  /\ UNCHANGED <<app_vars, posts, strays, answers, server, history_vars>>

(* An answer to a GET: debounceUpdateInput. *)
GetAnswer ==
  \E i \in 1..Len(answers) :
    /\ disturbed' = (disturbed \/ i > 1)
    /\ debouncedSettings' = {answers[i]}
    /\ answers' = RemoveAt(answers, i)
    /\ debounceJob' = "input"
    /\ UNCHANGED <<settingsState, count, posts, strays, answered, gets, server, count_vars>>
-----------------------------------------------------------------------------
(* The server.                                                             *)

Serve(command) ==
  /\ server' = Step(server, command)
  /\ applied' = IF command.word \in CountedWords
                THEN [applied EXCEPT ![command.word] = @ + command.delta]
                ELSE applied

ServePost ==
  \E command \in BagToSet(posts) :
    /\ Serve(command)
    /\ posts' = posts (-) SetToBag({command})
    /\ answered' = answered (+) SetToBag({command})
    /\ UNCHANGED <<app_vars, strays, gets, answers, tapped, taps, resend_vars, disturbed>>

(* The answer finds its connection gone. *)
ServeStray ==
  \E command \in BagToSet(strays) :
    /\ Serve(command)
    /\ strays' = strays (-) SetToBag({command})
    /\ UNCHANGED <<app_vars, posts, answered, gets, answers, tapped, taps, resend_vars,
                   disturbed>>

ServeGet ==
  /\ gets > 0
  /\ gets' = gets - 1
  /\ answers' = Append(answers, server)
  /\ UNCHANGED <<app_vars, posts, strays, answered, server, history_vars>>
-----------------------------------------------------------------------------
(* Connections that fail.  What the HTTP client does not send again is        *)
(* dropped: the app catches the exception.                                   *)

(* Either the command is sent again, or not; P are the POSTs without it. *)
Retried(command, P) ==
  \/ posts' = P /\ UNCHANGED resend_vars
  \/ /\ resends < MaxResends
     /\ resends' = resends + 1
     /\ resent' = IF command.word \in CountedWords
                  THEN [resent EXCEPT ![command.word] = @ + command.delta]
                  ELSE resent
     /\ posts' = P (+) SetToBag({command})

(* A POST whose connection fails before it is served: the server has it       *)
(* already, or never will.                                                  *)
LosePost ==
  \E command \in BagToSet(posts) :
    /\ disturbed' = TRUE
    /\ strays' \in {strays, strays (+) SetToBag({command})}
    /\ Retried(command, posts (-) SetToBag({command}))
    /\ UNCHANGED <<app_vars, answered, gets, answers, server, tapped, taps, applied>>

(* A POST that was served, its answer lost. *)
LosePostAnswer ==
  \E command \in BagToSet(answered) :
    /\ disturbed' = TRUE
    /\ answered' = answered (-) SetToBag({command})
    /\ Retried(command, posts)
    /\ UNCHANGED <<app_vars, strays, gets, answers, server, tapped, taps, applied>>

(* A GET or its answer; sent again, it is one more GET. *)
LoseGet ==
  /\ disturbed' = TRUE
  /\ \/ gets > 0 /\ gets' \in {gets - 1, gets} /\ UNCHANGED answers
     \/ \E i \in 1..Len(answers) : answers' = RemoveAt(answers, i) /\ gets' \in {gets, gets + 1}
  /\ UNCHANGED <<app_vars, posts, strays, answered, server, count_vars>>

User == \/ \E word \in DirectWords : TapDirect(word)
        \/ \E word \in CountedWords : TapCounted(word)

Progress == FireOutput \/ FireInput \/ AckPost \/ GetAnswer \/ ServePost \/ ServeGet

ControlNext == User \/ Progress \/ ServeStray \/ LosePost \/ LosePostAnswer \/ LoseGet

ControlSpec == ControlInit /\ [][ControlNext]_control_vars

(* Timers fire and requests whose connections hold are served; the user may   *)
(* stop at any time.                                                        *)
ControlFairness ==
  /\ WF_control_vars(FireOutput) /\ WF_control_vars(FireInput) /\ WF_control_vars(AckPost)
  /\ WF_control_vars(GetAnswer) /\ WF_control_vars(ServePost) /\ WF_control_vars(ServeGet)
-----------------------------------------------------------------------------
(* Properties.                                                             *)

(* The screen and the server show temperatures the AC has; one job at most   *)
(* is waiting, and one that waits to show fetched settings has them.         *)
ControlTypeOK ==
  /\ settingsState \in Settings /\ server \in Settings
  /\ debounceJob \in {"none", "output", "input"}
  /\ debouncedSettings \subseteq Settings
  /\ debounceJob = "input" => debouncedSettings # {}
  /\ count \in [CountedWords -> 0..MaxTaps]
  /\ \A b \in {posts, strays, answered} :
       IsABag(b) /\ BagCardinality(b) <= MaxTaps + MaxResends
  /\ gets \in 0..(MaxTaps + 1) /\ resends \in 0..MaxResends
  /\ answers \in Seq(Settings) /\ disturbed \in BOOLEAN

(* A tap on an arrow (AcControlViewModel.kt:126-144) is applied once at most,   *)
(* although the counters are shared by the taps before and after a pause     *)
(* that was cut short and survive the cancelling of the job; and once more    *)
(* only for each time the HTTP client sent its POST again                     *)
(* (network/HttpClient.kt:35), which a POST of steps does not withstand.      *)
AppliedAtMostOnce ==
  \A w \in CountedWords : applied[w] + count[w] <= taps[w] + resent[w]

(* Once the user rests, the screen comes to show the server's settings       *)
(* (AcControlViewModel.kt:101, 151) whatever was tapped meanwhile, whichever  *)
(* jobs cancelled each other and in whatever order the POSTs were served --   *)
(* unless a connection failed or answers came out of order.                   *)
EventuallyAgrees == <>[](disturbed \/ settingsState = server)
=============================================================================
