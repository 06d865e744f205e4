------------------------------- MODULE Settings -------------------------------
(***************************************************************************)
(* SettingsStore (sysmodule/src/utils/settings_store.cpp): the settings in *)
(* memory and in settings.json, the IPC commands that read and write them  *)
(* (sysmodule/src/ipc/ipc_service.cpp) and the overlay's settings screen   *)
(* (overlay/src/gui/settings_gui.cpp, notification_style_gui.cpp).         *)
(*                                                                         *)
(* The sysmodule may be killed at any moment: by a power cut, or by the    *)
(* overlay's own "Restart sysmodule".                                      *)
(***************************************************************************)
EXTENDS Naturals

CONSTANTS
  Key,     \* the settings
  Value,   \* what one can be set to
  Step,    \* the values the screen offers
  Unset    \* a setting that is not in the map, or not in the file

VARIABLES
  boot,    \* how far NxApplication's constructor has come
  values,  \* g_bool and g_int
  saved,   \* settings.json: the settings in it, or that it does not parse
  cmd,     \* where the IPC thread is in a write command
  copy,    \* bool_copy and int_copy
  screen,  \* the settings screen: what it shows, Unset for each if it is closed
  want,    \* history: what the user chose last
  whole,   \* history: the last contents that were written completely
  hurt,    \* history: a write was cut off or failed after that
  astray   \* history: the open screen has asked in vain, or lost what it wrote

vars == <<boot, values, saved, cmd, copy, screen, want, whole, hurt, astray>>
history == <<want, whole, hurt, astray>>

Torn == <<>>    \* a file that does not parse
Settings == [Key -> Value \cup {Unset}]
Nothing == [k \in Key |-> Unset]

\* The defaults of constants.h; the screen offers each of them.
Default == [k \in Key |-> CHOOSE v \in Step : \A w \in Step : v <= w]

TypeOK ==
  /\ boot \in {"off", "service", "loaded", "up", "alone"}
  /\ values \in Settings
  /\ saved \in Settings \cup {Torn}
  /\ cmd \in {"idle", "copy", "open", "write"}
  /\ copy \in Settings
  /\ screen \in [Key -> Step \cup {Unset}]
  /\ want \in Settings /\ whole \in Settings
  /\ hurt \in BOOLEAN /\ astray \in BOOLEAN

\* A map with the defaults for what is not in it.
Fill(m) == [k \in Key |-> IF m[k] = Unset THEN Default[k] ELSE m[k]]

\* The file may be missing, or be one that an older version wrote.
Init ==
  /\ boot = "off" /\ values = Nothing /\ cmd = "idle" /\ copy = Nothing
  /\ saved \in Settings
  /\ screen = Nothing
  /\ want = saved /\ whole = saved /\ hurt = FALSE /\ astray = FALSE

-----------------------------------------------------------------------------
(* The sysmodule starts, and is killed.                                    *)

\* The IPC thread is started first: from now on commands may come.
StartService ==
  /\ boot = "off"
  /\ boot' = "service"
  /\ UNCHANGED <<values, saved, cmd, copy, screen, history>>

\* The name cannot be registered or the thread not be made: start() returns before
\* load().  client_ is made all the same and runs on the defaults, whatever the file
\* has, and there is nobody to serve a command.
ServiceFails ==
  /\ boot = "off"
  /\ boot' = "alone"
  /\ UNCHANGED <<values, saved, cmd, copy, screen, history>>

\* What was lost is lost; the user will have to choose again.
Remember ==
  /\ want' = IF hurt THEN values' ELSE want
  /\ astray' = (astray \/ hurt)

\* SettingsStore::load: the defaults go into the empty places, the file over
\* them.  A file that does not parse changes nothing.  An open file is waited for.
Load ==
  /\ boot = "service" /\ cmd # "write"
  /\ boot' = "loaded"
  /\ values' = [k \in Key |-> IF saved # Torn /\ saved[k] # Unset THEN saved[k]
                              ELSE Fill(values)[k]]
  /\ Remember
  /\ UNCHANGED <<saved, cmd, copy, screen, whole, hurt>>

\* client_ is made; until then every command is refused.
MakeClient ==
  /\ boot = "loaded"
  /\ boot' = "up"
  /\ UNCHANGED <<values, saved, cmd, copy, screen, history>>

Kill ==
  /\ boot # "off"
  /\ boot' = "off"
  /\ values' = Nothing /\ cmd' = "idle" /\ copy' = Nothing
  /\ hurt' = (hurt \/ cmd # "idle")
  /\ UNCHANGED <<saved, screen, want, whole, astray>>

-----------------------------------------------------------------------------
(* Commands.                                                               *)

\* Mutant: commands are not refused while there is no client.
CanServeAtOnce == boot # "off" /\ cmd = "idle"

\* The IPC thread serves one command at a time.
CanServe == boot = "up" /\ cmd = "idle"

\* Mutant: a value is not looked up.
GetDefault(k) == Default[k]

\* SettingsStore::get.
Get(k) == Fill(values)[k]

\* SettingsStore::set, as far as the map.
Set(k, v) ==
  /\ values' = [values EXCEPT ![k] = v]
  /\ cmd' = "copy"
  /\ want' = [want EXCEPT ![k] = v]

\* save(), which copies the maps under the lock and writes without it.
Copy ==
  /\ cmd = "copy"
  /\ copy' = values
  /\ cmd' = "open"
  /\ UNCHANGED <<boot, values, saved, screen, history>>

\* write_file: the file is created, or opened and given its new size.  A longer
\* text that is cut short does not parse; a shorter or equally long one that is
\* extended (by zeros) still does.
OpenFile ==
  /\ cmd = "open"
  /\ saved' \in {Torn, saved}
  /\ cmd' = "write"
  /\ UNCHANGED <<boot, values, copy, screen, history>>

\* Mutant: the text is written piece by piece over what was there.
WritePiecewise ==
  /\ cmd = "write"
  /\ \E k \in Key : saved' = [j \in Key |-> IF saved = Torn \/ j = k THEN copy[j] ELSE saved[j]]
  /\ whole' = copy /\ hurt' = FALSE
  /\ cmd' = "idle"
  /\ UNCHANGED <<boot, values, copy, screen, want, astray>>

WriteFile ==
  /\ cmd = "write"
  /\ saved' = copy
  /\ whole' = copy /\ hurt' = FALSE
  /\ cmd' = "idle"
  /\ UNCHANGED <<boot, values, copy, screen, want, astray>>

\* The file cannot be opened, sized or written, or not to the end: it is logged,
\* and the new value is used until the sysmodule ends.
WriteFails ==
  /\ cmd \in {"open", "write"}
  /\ saved' \in {Torn, saved}
  /\ hurt' = TRUE
  /\ cmd' = "idle"
  /\ UNCHANGED <<boot, values, copy, screen, want, whole, astray>>

-----------------------------------------------------------------------------
(* The settings screen.                                                    *)

\* findStepIndex: a value that is not offered is shown as the first that is.
Shown(v) == IF v \in Step THEN v ELSE CHOOSE w \in Step : \A x \in Step : w <= x

\* SettingsGui::createUI, with a read command for each setting.  A command that
\* fails leaves the default, whatever the setting is.
OpenScreen ==
  /\ screen = Nothing
  /\ \/ CanServe /\ screen' = [k \in Key |-> Shown(Get(k))] /\ astray' = FALSE
     \/ boot # "up" /\ screen' = Default /\ astray' = TRUE
  /\ UNCHANGED <<boot, values, saved, cmd, copy, want, whole, hurt>>

\* A toggle or a bar is moved: a write command, which the overlay waits for.
Choose(k, v) ==
  /\ screen # Nothing /\ screen[k] # v /\ CanServe
  /\ screen' = [screen EXCEPT ![k] = v]
  /\ Set(k, v)
  /\ UNCHANGED <<boot, saved, copy, whole, hurt, astray>>

\* The same while the sysmodule is not there: the error is not looked at.
ChooseInVain(k, v) ==
  /\ screen # Nothing /\ screen[k] # v /\ boot # "up"
  /\ screen' = [screen EXCEPT ![k] = v]
  /\ astray' = TRUE
  /\ UNCHANGED <<boot, values, saved, cmd, copy, want, whole, hurt>>

\* The user goes back, or the notification style screen is swapped for a new one.
CloseScreen ==
  /\ screen # Nothing /\ cmd = "idle"
  /\ screen' = Nothing
  /\ UNCHANGED <<boot, values, saved, cmd, copy, history>>

Next ==
  \/ StartService \/ ServiceFails \/ Load \/ MakeClient \/ Kill
  \/ Copy \/ OpenFile \/ WriteFile \/ WriteFails
  \/ OpenScreen \/ CloseScreen
  \/ \E k \in Key, v \in Step : Choose(k, v) \/ ChooseInVain(k, v)

Spec == Init /\ [][Next]_vars

-----------------------------------------------------------------------------

\* "Writes are persisted immediately" (settings_store.h): what the user chose last is
\* what a restart will find, unless a write failed or was cut off; and it is what a
\* program uses that has the commands served.  In particular none is served before
\* load() has run, although the IPC thread is started before it.
ChoiceLasts ==
  cmd = "idle" /\ ~hurt =>
    /\ saved # Torn /\ Fill(saved) = Fill(want)
    /\ boot = "up" => Fill(values) = Fill(want)

\* Whatever happened to the file, a start finds the last complete contents or
\* the defaults, never some settings of one and some of the other.
NoMixture == boot \in {"loaded", "alone"} => Fill(values) \in {Fill(whole), Default}

\* The screen shows what is in effect, but for a value it does not offer, and
\* unless the sysmodule was away and has lost what was chosen on it, or was
\* never told: the screen does not look at errors.
ScreenIsTrue ==
  screen # Nothing /\ CanServe /\ ~astray => \A k \in Key : screen[k] = Shown(Get(k))

=============================================================================
