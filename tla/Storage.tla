------------------------------ MODULE Storage ------------------------------
(***************************************************************************)
(* The settings kept in flash (esp32iot_storage.c) and the tasks that use  *)
(* them: app_main at boot, the WiFi event task and the HTTP server task.   *)
(*                                                                         *)
(* A storage function is a sequence of NVS calls; a task runs one call at  *)
(* a time, interleaved with the other tasks, and the device may restart    *)
(* between any two: power loss, the /restart page, or ESP_ERROR_CHECK on   *)
(* the error of any call.  NVS itself is external: reads see what was set, *)
(* nvs_commit makes it durable, and a write that is not committed reaches  *)
(* the flash at any later time, in the order of writing, or is lost.       *)
(***************************************************************************)
EXTENDS Integers, Sequences

CONSTANTS
    Ssids,       \* names of WiFi networks; save_wifi uses them as keys
    Passwords,   \* their passwords
    Accounts,    \* MQTT accounts: user name, password and client id
    Empty,       \* the empty string, which is also what an absent key reads as
    MaxPending,  \* bound: unwritten writes before a new operation starts
    MaxCount     \* bound: restarts counted

VARIABLES
    flash,       \* what a restart finds: key -> value
    view,        \* what nvs_get_str and nvs_get_i32 read: key -> value
    pending,     \* writes that have not reached the flash, oldest first
    todo,        \* the NVS calls each task has still to make
    phase,       \* "off", "boot" (app_main) or "up"
    mode,        \* what wifi_start chose: "none", "sta" or "ap"
    \* history
    written,     \* the last value the code set for each key
    status,      \* of each group of keys that is saved together
    lo, hi       \* restarts certainly, and possibly, counted since a reset

nvsVars == <<flash, view, pending>>
histVars == <<written, status, lo, hi>>
vars == <<nvsVars, todo, phase, mode, histVars>>

Tasks == {"main", "event", "http"}

WifiKeys == {"last_ssid", "last_password"}
MqttKeys == {"mqtt_user", "mqtt_pass", "mqtt_id"}
WifiNamespace == WifiKeys \cup MqttKeys \cup Ssids
Keys == WifiNamespace \cup {"restart_counter"}

Groups == {"wifi", "mqtt"} \cup Ssids
KeysOf(g) == CASE g = "wifi" -> WifiKeys [] g = "mqtt" -> MqttKeys [] OTHER -> {g}
FirstKey(g) == CASE g = "wifi" -> "last_ssid" [] g = "mqtt" -> "mqtt_user" [] OTHER -> g

(* save_wifi uses the name of a network as a key, next to the fixed ones;  *)
(* the names of the other groups and commits are labels of this module.    *)
ASSUME KeysAreDistinct ==
    /\ Ssids \cap (WifiKeys \cup MqttKeys \cup {"restart_counter"}) = {}
    /\ Ssids \cap {"wifi", "mqtt", "counted", "reset"} = {}
    /\ Empty \notin Ssids \cup Accounts
    /\ MaxPending \in Nat /\ MaxCount \in Nat

Networks == [ssid : Ssids, password : Passwords]
NoSettings == [k \in Keys |-> IF k = "restart_counter" THEN 0 ELSE Empty]

-----------------------------------------------------------------------------
(* NVS *)

(* A write gives the keys of w the value v. *)
Applied(store, w) == [k \in Keys |-> IF k \in w.keys THEN w.val ELSE store[k]]

nvs_write(ks, v) ==
    LET w == [keys |-> ks, val |-> v]
    IN  /\ view' = Applied(view, w)
        /\ pending' = Append(pending, w)
        /\ written' = Applied(written, w)
        /\ UNCHANGED flash

nvs_commit ==
    /\ flash' = view
    /\ pending' = <<>>
    /\ UNCHANGED <<view, written>>

(* NVS calls.  A set, and the commit after it, name the group of keys they *)
(* belong to.                                                              *)
Set(k, v, g) == [call |-> "set", key |-> k, val |-> v, group |-> g]
Increment == [call |-> "increment"]
Reset == [call |-> "reset"]
EraseAll == [call |-> "erase"]
Commit(g) == [call |-> "commit", group |-> g]

-----------------------------------------------------------------------------
(* The storage functions, as the NVS calls that change something.          *)

save_wifi(n) == <<Set(n.ssid, n.password, n.ssid), Commit(n.ssid)>>

(* (mutant: the commit comes before the second half of the pair) *)
WifiCommittedEarly(n) ==
    <<Set("last_ssid", n.ssid, "wifi"), Commit("wifi"),
      Set("last_password", n.password, "wifi")>>

save_last_connected_wifi(n) ==
    <<Set("last_ssid", n.ssid, "wifi"), Set("last_password", n.password, "wifi"),
      Commit("wifi")>>

save_last_connected_mqtt(a) ==
    <<Set("mqtt_user", a, "mqtt"), Set("mqtt_pass", a, "mqtt"),
      Set("mqtt_id", a, "mqtt"), Commit("mqtt")>>

(* (mutant: the counter is committed before it is set) *)
CommitThenCount == <<Commit("counted"), Increment>>

save_restart_counter == <<Increment, Commit("counted")>>

reset_restart_counter == <<Reset, Commit("reset")>>

erase_storage == <<EraseAll>>

-----------------------------------------------------------------------------
Init ==
    /\ flash = NoSettings /\ view = NoSettings /\ pending = <<>>
    /\ todo = [t \in Tasks |-> <<>>]
    /\ phase = "off"
    /\ mode = "none"
    /\ written = NoSettings
    /\ status = [g \in Groups |-> "spoiled"]
    /\ lo = 0 /\ hi = 0

(* nvs_flash_init finds what is in the flash; when it has no free pages,   *)
(* storage_init erases everything.                                         *)
storage_init ==
    \/ UNCHANGED <<flash, view, status, lo>>
    \/ /\ flash' = NoSettings /\ view' = NoSettings
       /\ status' = [g \in Groups |-> "spoiled"]
       /\ lo' = 0

(* app_main: storage_init, then save_restart_counter. *)
Boot ==
    /\ phase = "off"
    /\ phase' = "boot"
    /\ storage_init
    /\ todo' = [todo EXCEPT !["main"] = save_restart_counter]
    /\ UNCHANGED <<pending, mode, written, hi>>

get_last_connected_wifi == [ssid |-> view["last_ssid"], password |-> view["last_password"]]

(* (mutants: the pair is taken for missing when the password is there; the *)
(* configuration page is brought up in the combined mode)                  *)
StartModeInverted(n) == IF n.ssid # Empty /\ n.password = Empty THEN "sta" ELSE "ap"

StartModeCombined(n) == IF n.ssid # Empty /\ n.password # Empty THEN "sta" ELSE "apsta"

StartMode(n) == IF n.ssid # Empty /\ n.password # Empty THEN "sta" ELSE "ap"

(* wifi_start: a complete pair is needed to start as a station. *)
wifi_start ==
    /\ phase = "boot" /\ todo["main"] = <<>>
    /\ phase' = "up"
    /\ mode' = StartMode(get_last_connected_wifi)
    /\ UNCHANGED <<nvsVars, todo, histVars>>

Starts(t, calls) ==
    /\ phase = "up" /\ todo[t] = <<>>
    /\ Len(pending) < MaxPending
    /\ todo' = [todo EXCEPT ![t] = calls]
    /\ UNCHANGED <<nvsVars, phase, mode, histVars>>

(* SYSTEM_EVENT_STA_CONNECTED *)
StaConnected(n) == Starts("event", save_last_connected_wifi(n) \o save_wifi(n))

(* The pages of the HTTP server *)
MqttSetup(a) == Starts("http", save_last_connected_mqtt(a))
EraseWifiData == Starts("http", erase_storage)
ResetRestartCounter == Starts("http", reset_restart_counter)

-----------------------------------------------------------------------------
(* The next NVS call of task t. *)

Next1(t) == Head(todo[t])

Returns(t) == todo' = [todo EXCEPT ![t] = Tail(@)]

(* A group is "busy" from its first set to its commit; a group written to  *)
(* by anyone else, or left half written by a restart, is "spoiled".        *)
CallSet(t) ==
    /\ todo[t] # <<>> /\ Next1(t).call = "set"
    /\ nvs_write({Next1(t).key}, Next1(t).val)
    /\ status' = [status EXCEPT ![Next1(t).group] =
                    IF Next1(t).key = FirstKey(Next1(t).group) THEN "busy" ELSE @]
    /\ Returns(t)
    /\ UNCHANGED <<phase, mode, lo, hi>>

CallIncrement(t) ==
    /\ todo[t] # <<>> /\ Next1(t).call = "increment"
    /\ nvs_write({"restart_counter"}, view["restart_counter"] + 1)
    /\ hi' = hi + 1
    /\ Returns(t)
    /\ UNCHANGED <<phase, mode, status, lo>>

CallReset(t) ==
    /\ todo[t] # <<>> /\ Next1(t).call = "reset"
    /\ nvs_write({"restart_counter"}, 0)
    /\ lo' = 0
    /\ Returns(t)
    /\ UNCHANGED <<phase, mode, status, hi>>

CallErase(t) ==
    /\ todo[t] # <<>> /\ Next1(t).call = "erase"
    /\ nvs_write(WifiNamespace, Empty)
    /\ status' = [g \in Groups |-> "spoiled"]
    /\ Returns(t)
    /\ UNCHANGED <<phase, mode, lo, hi>>

CallCommit(t) ==
    /\ todo[t] # <<>> /\ Next1(t).call = "commit"
    /\ nvs_commit
    /\ LET g == Next1(t).group
       IN  \/ /\ g \in Groups
              /\ status' = [status EXCEPT ![g] = IF @ = "busy" THEN "saved" ELSE @]
              /\ UNCHANGED <<lo, hi>>
           \/ /\ g = "counted" /\ lo' = lo + 1
              /\ UNCHANGED <<status, hi>>
           \/ /\ g = "reset" /\ hi' = 0
              /\ UNCHANGED <<status, lo>>
    /\ Returns(t)
    /\ UNCHANGED <<phase, mode>>

(* "Implementations may write to storage at other times" *)
Flush ==
    /\ pending # <<>>
    /\ flash' = Applied(flash, Head(pending))
    /\ pending' = Tail(pending)
    /\ UNCHANGED <<view, todo, phase, mode, histVars>>

(* Power loss, esp_restart, or the abort of a failed ESP_ERROR_CHECK.      *)
Restart ==
    /\ phase # "off" /\ hi < MaxCount
    /\ phase' = "off" /\ mode' = "none"
    /\ todo' = [t \in Tasks |-> <<>>]
    /\ view' = flash /\ pending' = <<>>
    /\ status' = [g \in Groups |-> IF status[g] = "busy" THEN "spoiled" ELSE status[g]]
    /\ UNCHANGED <<flash, written, lo, hi>>

Next ==
    \/ Boot \/ wifi_start
    \/ \E n \in Networks : StaConnected(n)
    \/ \E a \in Accounts : MqttSetup(a)
    \/ EraseWifiData \/ ResetRestartCounter
    \/ \E t \in Tasks :
         \/ CallSet(t) \/ CallIncrement(t) \/ CallReset(t)
         \/ CallErase(t) \/ CallCommit(t)
    \/ Flush
    \/ Restart

Spec == Init /\ [][Next]_vars

-----------------------------------------------------------------------------
NvsCalls ==
    {Increment, Reset, EraseAll}
      \cup {Commit(g) : g \in Groups \cup {"counted", "reset"}}
      \cup UNION {{Set(k, v, g) : k \in KeysOf(g), v \in Ssids \cup Passwords \cup Accounts}
                    : g \in Groups}

Stores == {s \in [Keys -> Ssids \cup Passwords \cup Accounts \cup {Empty} \cup Nat] :
             s["restart_counter"] \in Nat}

TypeOK ==
    /\ flash \in Stores /\ view \in Stores /\ written \in Stores
    /\ pending \in Seq([keys : SUBSET Keys,
                        val : Ssids \cup Passwords \cup Accounts \cup {Empty} \cup Nat])
    /\ todo \in [Tasks -> Seq(NvsCalls)]
    /\ phase \in {"off", "boot", "up"}
    /\ mode \in {"none", "sta", "ap"}
    /\ status \in [Groups -> {"saved", "busy", "spoiled"}]
    /\ lo \in Nat /\ hi \in Nat

(* Settings that a storage function has saved are there, whole, after any  *)
(* number of restarts: both halves of the WiFi pair, the three parts of    *)
(* the MQTT account, the password of a known network.  Only a later save   *)
(* of the same settings, an erase or an erased flash ends that; a save     *)
(* that a restart or an erase cuts in two does not count as one.           *)
SettingsSurvive ==
    \A g \in Groups : status[g] = "saved" =>
      \A k \in KeysOf(g) : flash[k] = written[k] /\ view[k] = written[k]

(* The restart counter counts every boot that got past save_restart_counter*)
(* since the last reset that began, and none from before the last reset    *)
(* that was completed.                                                     *)
CounterCounts ==
    \A store \in {flash, view} :
      lo <= store["restart_counter"] /\ store["restart_counter"] <= hi

(* A device whose last save of a WiFi pair was completed, and which needs  *)
(* a password, comes up as a station at the next boot.                     *)
StationAfterSave ==
    [][phase = "boot" /\ phase' = "up"
         /\ status["wifi"] = "saved" /\ written["last_password"] # Empty
         => mode' = "sta"]_vars
=============================================================================
