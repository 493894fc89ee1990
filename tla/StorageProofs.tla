--------------------------- MODULE StorageProofs ----------------------------
(***************************************************************************)
(* Settings survive and restarts are counted, for any networks, passwords  *)
(* and accounts, any interleaving of the tasks' NVS calls, and any number  *)
(* of restarts and of writes that have not reached the flash.              *)
(***************************************************************************)
EXTENDS Storage, TLAPS

(* The calls the WiFi event task has left from the i-th on. *)
WifiCall(n) ==
    <<Set("last_ssid", n.ssid, "wifi"), Set("last_password", n.password, "wifi"),
      Commit("wifi"), Set(n.ssid, n.password, n.ssid), Commit(n.ssid)>>

WifiLeft(n, i) ==
    LET c == WifiCall(n)
    IN  CASE i = 1 -> <<c[1], c[2], c[3], c[4], c[5]>>
          [] i = 2 -> <<c[2], c[3], c[4], c[5]>>
          [] i = 3 -> <<c[3], c[4], c[5]>>
          [] i = 4 -> <<c[4], c[5]>>
          [] i = 5 -> <<c[5]>>
          [] OTHER -> <<>>

(* Those of the page /mqtt-setup. *)
MqttCall(a) == save_last_connected_mqtt(a)

MqttLeft(a, i) ==
    LET c == MqttCall(a)
    IN  CASE i = 1 -> <<c[1], c[2], c[3], c[4]>>
          [] i = 2 -> <<c[2], c[3], c[4]>>
          [] i = 3 -> <<c[3], c[4]>>
          [] i = 4 -> <<c[4]>>
          [] OTHER -> <<>>

(* What was set for the keys of ks since the last restart is what is read. *)
Agree(ks) == \A k \in ks : view[k] = written[k]

(* The WiFi event task is at the i-th of its calls. *)
EventAt(n, i) ==
    /\ todo["event"] = WifiLeft(n, i)
    /\ i = 2 => status["wifi"] # "saved"
    /\ i \in {2, 3} => Agree({"last_ssid"})
    /\ i = 3 => Agree(WifiKeys)
    /\ i = 5 => Agree({n.ssid})

(* The page /mqtt-setup is at the i-th of its calls. *)
MqttAt(a, i) ==
    /\ todo["http"] = MqttLeft(a, i)
    /\ i \in {2, 3} => status["mqtt"] # "saved"
    /\ i \in 2..4 => Agree({"mqtt_user"})
    /\ i \in 3..4 => Agree({"mqtt_pass"})
    /\ i = 4 => Agree({"mqtt_id"})

(* The page that resets the counter has reset it. *)
ResetAt ==
    \/ todo["http"] = reset_restart_counter
    \/ /\ todo["http"] = <<Commit("reset")>>
       /\ view["restart_counter"] = 0 /\ lo = 0

MainAt ==
    \/ todo["main"] = save_restart_counter
    \/ todo["main"] = <<Commit("counted")>> /\ lo < view["restart_counter"]

(* Which calls each task has left, and what holds between them. *)
MainOK == todo["main"] = <<>> \/ (phase = "boot" /\ MainAt)

EventOK ==
    todo["event"] = <<>> \/ (phase = "up" /\ \E n \in Networks, i \in 1..5 : EventAt(n, i))

HttpOK ==
    \/ todo["http"] = <<>>
    \/ /\ phase = "up"
       /\ \/ \E a \in Accounts, i \in 1..4 : MqttAt(a, i)
          \/ todo["http"] = erase_storage
          \/ ResetAt

Places == DOMAIN todo = Tasks /\ MainOK /\ EventOK /\ HttpOK

Writes == [keys : SUBSET Keys, val : Ssids \cup Passwords \cup Accounts \cup {Empty} \cup Nat]

(* Saved settings are in the flash, and nothing on its way to it touches   *)
(* them; those of the WiFi pair have a name.                               *)
SavedInv ==
    /\ status \in [Groups -> {"saved", "busy", "spoiled"}]
    /\ DOMAIN flash = Keys /\ DOMAIN view = Keys /\ DOMAIN written = Keys
    /\ pending \in Seq(Writes)
    /\ SettingsSurvive
    /\ \A g \in Groups : status[g] = "saved" =>
         \A i \in 1..Len(pending) : KeysOf(g) \cap pending[i].keys = {}
    /\ status["wifi"] # "spoiled" => written["last_ssid"] \in Ssids

(* The counter is in its bounds, and so is what it may become. *)
CountInv ==
    /\ lo \in Nat /\ hi \in Nat
    /\ flash["restart_counter"] \in Nat /\ view["restart_counter"] \in Nat
    /\ CounterCounts
    /\ \A i \in 1..Len(pending) : "restart_counter" \in pending[i].keys =>
         pending[i].val \in Nat /\ lo <= pending[i].val /\ pending[i].val <= hi

StorageInv == Places /\ SavedInv /\ CountInv

-----------------------------------------------------------------------------
(* Sequences of calls *)

(* The calls the event task makes on SYSTEM_EVENT_STA_CONNECTED, one by one. *)
LEMMA WifiSteps ==
    ASSUME NEW n
    PROVE  /\ WifiLeft(n, 1) = save_last_connected_wifi(n) \o save_wifi(n)
           /\ \A i \in 1..5 :
                /\ WifiLeft(n, i) # <<>>
                /\ Head(WifiLeft(n, i)) = WifiCall(n)[i]
                /\ Tail(WifiLeft(n, i)) = WifiLeft(n, i + 1)
           /\ WifiLeft(n, 6) = <<>>
<1>1. WifiLeft(n, 1) = save_last_connected_wifi(n) \o save_wifi(n)
  BY DEF WifiLeft, WifiCall, save_last_connected_wifi, save_wifi
<1>2. ASSUME NEW i \in 1..5
      PROVE  /\ WifiLeft(n, i) # <<>>
             /\ Head(WifiLeft(n, i)) = WifiCall(n)[i]
             /\ Tail(WifiLeft(n, i)) = WifiLeft(n, i + 1)
  <2>1. i \in {1, 2, 3, 4, 5}
    OBVIOUS
  <2>2. QED
    BY <2>1 DEF WifiLeft
<1>3. WifiLeft(n, 6) = <<>>
  BY DEF WifiLeft
<1>4. QED
  BY <1>1, <1>2, <1>3, Zenon

(* The calls of save_last_connected_mqtt, one by one. *)
LEMMA MqttSteps ==
    ASSUME NEW a
    PROVE  /\ MqttLeft(a, 1) = save_last_connected_mqtt(a)
           /\ \A i \in 1..4 :
                /\ MqttLeft(a, i) # <<>>
                /\ Head(MqttLeft(a, i)) = MqttCall(a)[i]
                /\ Tail(MqttLeft(a, i)) = MqttLeft(a, i + 1)
           /\ MqttLeft(a, 5) = <<>>
<1>1. MqttLeft(a, 1) = save_last_connected_mqtt(a)
  BY DEF MqttLeft, MqttCall, save_last_connected_mqtt
<1>2. ASSUME NEW i \in 1..4
      PROVE  /\ MqttLeft(a, i) # <<>>
             /\ Head(MqttLeft(a, i)) = MqttCall(a)[i]
             /\ Tail(MqttLeft(a, i)) = MqttLeft(a, i + 1)
  <2>1. i \in {1, 2, 3, 4}
    OBVIOUS
  <2>2. QED
    BY <2>1 DEF MqttLeft
<1>3. MqttLeft(a, 5) = <<>>
  BY DEF MqttLeft
<1>4. QED
  BY <1>1, <1>2, <1>3

(* The next call of the event task is one that its function makes. *)
LEMMA EventCall ==
    ASSUME NEW n, NEW i \in 1..5, EventAt(n, i)
    PROVE  /\ Next1("event") = WifiCall(n)[i]
           /\ Tail(todo["event"]) = WifiLeft(n, i + 1)
BY WifiSteps, Zenon DEF EventAt, Next1

(* The next call of the HTTP server task is one that its function makes. *)
LEMMA HttpCall ==
    ASSUME NEW a, NEW i \in 1..4, MqttAt(a, i)
    PROVE  /\ Next1("http") = MqttCall(a)[i]
           /\ Tail(todo["http"]) = MqttLeft(a, i + 1)
BY MqttSteps, Zenon DEF MqttAt, Next1

(* The shorter functions. *)
LEMMA ShortCalls ==
    /\ Head(erase_storage) = EraseAll /\ Tail(erase_storage) = <<>>
    /\ Head(save_restart_counter) = Increment
    /\ Tail(save_restart_counter) = <<Commit("counted")>>
    /\ Head(reset_restart_counter) = Reset
    /\ Tail(reset_restart_counter) = <<Commit("reset")>>
    /\ \A g : Head(<<Commit(g)>>) = Commit(g) /\ Tail(<<Commit(g)>>) = <<>>
BY DEF erase_storage, save_restart_counter, reset_restart_counter

-----------------------------------------------------------------------------
(* Writes and commits *)

Vals == Ssids \cup Passwords \cup Accounts \cup {Empty} \cup Nat

(* The groups are disjoint sets of keys, and none holds the counter. *)
LEMMA KeysOfGroups ==
    /\ \A g \in Groups : KeysOf(g) \subseteq Keys /\ KeysOf(g) \subseteq WifiNamespace
    /\ KeysOf("wifi") = WifiKeys /\ KeysOf("mqtt") = MqttKeys
    /\ \A s \in Ssids : KeysOf(s) = {s} /\ FirstKey(s) = s
    /\ FirstKey("wifi") = "last_ssid" /\ FirstKey("mqtt") = "mqtt_user"
    /\ "restart_counter" \notin WifiNamespace
    /\ \A g, h \in Groups : g # h => KeysOf(g) \cap KeysOf(h) = {}
BY KeysAreDistinct
DEF Groups, KeysOf, Keys, WifiNamespace, WifiKeys, MqttKeys, FirstKey

(* What nvs_write does, key by key. *)
WriteEffect(ks, v) ==
    /\ flash' = flash
    /\ \A k \in Keys : view'[k] = IF k \in ks THEN v ELSE view[k]
    /\ \A k \in Keys : written'[k] = IF k \in ks THEN v ELSE written[k]
    /\ DOMAIN view' = Keys /\ DOMAIN written' = Keys
    /\ Len(pending') = Len(pending) + 1 /\ Len(pending) \in Nat
    /\ \A i \in 1..Len(pending) : pending'[i] = pending[i]
    /\ pending'[Len(pending) + 1] = [keys |-> ks, val |-> v]

(* nvs_write does that. *)
LEMMA WriteApplied ==
    ASSUME SavedInv, NEW ks \in SUBSET Keys, NEW v, nvs_write(ks, v)
    PROVE  WriteEffect(ks, v) /\ (v \in Vals => pending' \in Seq(Writes))
BY DEF SavedInv, nvs_write, Applied, Writes, Vals, WriteEffect

(* A write keeps what is saved if no group that counts as saved afterwards  *)
(* has a key in it.                                                         *)
LEMMA WriteSaved ==
    ASSUME SavedInv, NEW ks \in SUBSET Keys, NEW v \in Vals, nvs_write(ks, v),
           status' \in [Groups -> {"saved", "busy", "spoiled"}],
           \A g \in Groups : status'[g] = "saved" => status[g] = "saved" /\ KeysOf(g) \cap ks = {},
           status'["wifi"] # "spoiled" => written'["last_ssid"] \in Ssids
    PROVE  SavedInv'
<1>0. WriteEffect(ks, v) /\ pending' \in Seq(Writes)
  BY WriteApplied
<1>1. SettingsSurvive'
  BY <1>0, KeysOfGroups DEF SavedInv, SettingsSurvive, WriteEffect
<1>2. \A g \in Groups : status'[g] = "saved" =>
        \A i \in 1..Len(pending') : KeysOf(g) \cap pending'[i].keys = {}
  <2>. SUFFICES ASSUME NEW g \in Groups, status'[g] = "saved", NEW i \in 1..Len(pending')
                PROVE  KeysOf(g) \cap pending'[i].keys = {}
    OBVIOUS
  <2>1. CASE i \in 1..Len(pending)
    BY <2>1, <1>0 DEF SavedInv, WriteEffect
  <2>2. CASE i = Len(pending) + 1
    BY <2>2, <1>0 DEF WriteEffect
  <2>3. QED
    BY <2>1, <2>2, <1>0 DEF WriteEffect
<1>3. QED
  BY <1>1, <1>2, <1>0 DEF SavedInv, WriteEffect

(* A write keeps the bounds of the counter if its value is in them. *)
LEMMA WriteCounted ==
    ASSUME SavedInv, CountInv, NEW ks \in SUBSET Keys, NEW v, nvs_write(ks, v),
           lo' \in Nat, hi' \in Nat, lo' <= lo, hi <= hi',
           "restart_counter" \in ks => v \in Nat /\ lo' <= v /\ v <= hi'
    PROVE  CountInv'
<1>0. WriteEffect(ks, v)
  BY WriteApplied
<1>k. "restart_counter" \in Keys
  BY DEF Keys
<1>1. flash'["restart_counter"] \in Nat /\ view'["restart_counter"] \in Nat /\ CounterCounts'
  BY <1>0, <1>k DEF CountInv, CounterCounts, WriteEffect
<1>2. \A i \in 1..Len(pending') : "restart_counter" \in pending'[i].keys =>
        pending'[i].val \in Nat /\ lo' <= pending'[i].val /\ pending'[i].val <= hi'
  <2>. SUFFICES ASSUME NEW i \in 1..Len(pending'), "restart_counter" \in pending'[i].keys
                PROVE  pending'[i].val \in Nat /\ lo' <= pending'[i].val /\ pending'[i].val <= hi'
    OBVIOUS
  <2>1. CASE i \in 1..Len(pending)
    BY <2>1, <1>0 DEF CountInv, WriteEffect
  <2>2. CASE i = Len(pending) + 1
    BY <2>2, <1>0 DEF WriteEffect
  <2>3. QED
    BY <2>1, <2>2, <1>0 DEF WriteEffect
<1>3. QED
  BY <1>1, <1>2 DEF CountInv

(* A commit saves a group whose keys read as they were set. *)
LEMMA CommitSaved ==
    ASSUME SavedInv, nvs_commit,
           status' \in [Groups -> {"saved", "busy", "spoiled"}],
           \A g \in Groups : status'[g] = "saved" => status[g] = "saved" \/ Agree(KeysOf(g)),
           status'["wifi"] # "spoiled" => status["wifi"] # "spoiled"
    PROVE  SavedInv'
<1>1. SettingsSurvive'
  BY DEF SavedInv, SettingsSurvive, Agree, nvs_commit
<1>2. QED
  BY <1>1 DEF SavedInv, nvs_commit

(* A commit puts the counter that is read into the flash. *)
LEMMA CommitCounted ==
    ASSUME CountInv, nvs_commit, lo' \in Nat, hi' \in Nat,
           lo' <= view["restart_counter"], view["restart_counter"] <= hi'
    PROVE  CountInv'
BY DEF CountInv, CounterCounts, nvs_commit

(* What is read and what was set stay equal while the device is up. *)
Steady == \A k \in Keys : view[k] = written[k] => view'[k] = written'[k]

(* A write keeps that, and establishes it for its own keys. *)
LEMMA WriteSteady ==
    ASSUME SavedInv, NEW ks \in SUBSET Keys, NEW v, nvs_write(ks, v)
    PROVE  Steady /\ \A k \in ks : view'[k] = written'[k]
BY WriteApplied, ZenonT(60) DEF Steady, WriteEffect

(* So does a commit. *)
LEMMA CommitSteady ==
    ASSUME nvs_commit
    PROVE  Steady
BY DEF Steady, nvs_commit

-----------------------------------------------------------------------------
(* A task that is not the one that steps stays where it was. *)

(* app_main, while nobody else counts. *)
LEMMA MainKept ==
    ASSUME MainOK, todo'["main"] = todo["main"], phase' = phase,
           phase = "boot" => lo' = lo /\ view'["restart_counter"] = view["restart_counter"]
    PROVE  MainOK'
BY DEF MainOK, MainAt

(* The event task, while nobody else saves the WiFi pair. *)
LEMMA EventKept ==
    ASSUME EventOK, todo'["event"] = todo["event"], phase' = phase, Steady,
           status'["wifi"] = "saved" => status["wifi"] = "saved"
    PROVE  EventOK'
<1>1. CASE todo["event"] = <<>>
  BY <1>1 DEF EventOK
<1>2. CASE phase = "up" /\ \E n \in Networks, i \in 1..5 : EventAt(n, i)
  <2>1. PICK n \in Networks, i \in 1..5 : EventAt(n, i)
    BY <1>2
  <2>2. EventAt(n, i)'
    BY <2>1, Zenon DEF EventAt, Steady, Agree, Keys, WifiNamespace, WifiKeys, Networks
  <2>3. QED
    BY <1>2, <2>2 DEF EventOK
<1>3. QED
  BY <1>1, <1>2 DEF EventOK

(* The HTTP server task, while nobody else saves the account or counts. *)
LEMMA HttpKept ==
    ASSUME HttpOK, todo'["http"] = todo["http"], phase' = phase, Steady,
           status'["mqtt"] = "saved" => status["mqtt"] = "saved",
           phase = "up" => lo' = lo /\ view'["restart_counter"] = view["restart_counter"]
    PROVE  HttpOK'
<1>1. CASE todo["http"] = <<>> \/ (phase = "up" /\ (todo["http"] = erase_storage \/ ResetAt))
  BY <1>1 DEF HttpOK, ResetAt
<1>2. CASE phase = "up" /\ \E a \in Accounts, i \in 1..4 : MqttAt(a, i)
  <2>1. PICK a \in Accounts, i \in 1..4 : MqttAt(a, i)
    BY <1>2
  <2>2. MqttAt(a, i)'
    BY <2>1 DEF MqttAt, Steady, Agree, Keys, WifiNamespace, MqttKeys
  <2>3. QED
    BY <1>2, <2>2 DEF HttpOK
<1>3. QED
  BY <1>1, <1>2 DEF HttpOK

-----------------------------------------------------------------------------
(* The calls of the storage functions *)

(* A call that returns is removed from the calls of its task. *)
LEMMA Returned ==
    ASSUME Places, NEW t \in Tasks, Returns(t)
    PROVE  /\ DOMAIN todo' = Tasks
           /\ todo'[t] = Tail(todo[t])
           /\ \A u \in Tasks \ {t} : todo'[u] = todo[u]
BY DEF Places, Returns

(* nvs_set_str of key k for group g. *)
LEMMA SetEffect ==
    ASSUME StorageInv, NEW t \in Tasks, CallSet(t),
           NEW g \in Groups, NEW k \in KeysOf(g), NEW v \in Vals, Next1(t) = Set(k, v, g),
           k # FirstKey(g) => status[g] # "saved",
           k = "last_ssid" => v \in Ssids
    PROVE  /\ SavedInv' /\ CountInv' /\ Steady /\ view'[k] = written'[k]
           /\ \A h \in Groups : status'[h] = "saved" => status[h] = "saved"
           /\ k = FirstKey(g) => status'[g] = "busy"
           /\ view'["restart_counter"] = view["restart_counter"]
<1>1. /\ nvs_write({k}, v)
      /\ status' = [status EXCEPT ![g] = IF k = FirstKey(g) THEN "busy" ELSE @]
      /\ UNCHANGED <<phase, mode, lo, hi>>
  BY DEF CallSet, Set
<1>2. k \in Keys /\ k # "restart_counter" /\ {k} \in SUBSET Keys /\ "restart_counter" \in Keys
      /\ "last_ssid" \in Keys
  BY KeysOfGroups DEF Keys, WifiNamespace, WifiKeys
<1>3. SavedInv /\ CountInv /\ WriteEffect({k}, v)
  BY <1>1, <1>2, WriteApplied DEF StorageInv
<1>4. status' \in [Groups -> {"saved", "busy", "spoiled"}]
  BY <1>1, <1>3 DEF SavedInv
<1>5. \A h \in Groups : h # g => status'[h] = status[h] /\ KeysOf(h) \cap {k} = {}
  BY <1>1, <1>3, KeysOfGroups DEF SavedInv
<1>6. status'[g] = IF k = FirstKey(g) THEN "busy" ELSE status[g]
  BY <1>1, <1>3 DEF SavedInv
<1>7. \A h \in Groups : status'[h] = "saved" => status[h] = "saved" /\ KeysOf(h) \cap {k} = {}
  BY <1>5, <1>6
<1>8. status'["wifi"] # "spoiled" => written'["last_ssid"] \in Ssids
  <2>1. CASE k = "last_ssid"
    BY <2>1, <1>2, <1>3 DEF WriteEffect
  <2>2. CASE k # "last_ssid"
    <3>1. written'["last_ssid"] = written["last_ssid"]
      BY <2>2, <1>2, <1>3 DEF WriteEffect
    <3>2. status'["wifi"] = status["wifi"]
      BY <2>2, <1>5, <1>6, KeysOfGroups DEF Groups
    <3>3. QED
      BY <3>1, <3>2, <1>3 DEF SavedInv
  <2>3. QED
    BY <2>1, <2>2
<1>9. SavedInv'
  BY <1>1, <1>2, <1>3, <1>4, <1>7, <1>8, WriteSaved
<1>10. CountInv'
  <2>1. lo' \in Nat /\ hi' \in Nat /\ lo' <= lo /\ hi <= hi'
    BY <1>1, <1>3 DEF CountInv
  <2>2. QED
    BY <1>1, <1>2, <1>3, <2>1, WriteCounted
<1>11. Steady /\ view'[k] = written'[k]
  BY <1>1, <1>2, <1>3, WriteSteady
<1>12. view'["restart_counter"] = view["restart_counter"]
  BY <1>2, <1>3 DEF WriteEffect
<1>13. QED
  BY <1>6, <1>7, <1>9, <1>10, <1>11, <1>12

(* nvs_commit at the end of the save of group g. *)
LEMMA CommitEffect ==
    ASSUME StorageInv, NEW t \in Tasks, CallCommit(t),
           NEW g \in Groups, Next1(t) = Commit(g), Agree(KeysOf(g))
    PROVE  /\ SavedInv' /\ CountInv' /\ Steady /\ UNCHANGED <<view, lo, hi>>
           /\ \A h \in Groups \ {g} : status'[h] = status[h]
<1>1. g # "counted" /\ g # "reset"
  BY KeysAreDistinct DEF Groups
<1>2. /\ nvs_commit
      /\ status' = [status EXCEPT ![g] = IF @ = "busy" THEN "saved" ELSE @]
      /\ UNCHANGED <<lo, hi>>
  BY <1>1 DEF CallCommit, Commit
<1>3. SavedInv /\ CountInv
  BY DEF StorageInv
<1>4. status' \in [Groups -> {"saved", "busy", "spoiled"}]
  BY <1>2, <1>3 DEF SavedInv
<1>5. /\ status'[g] = IF status[g] = "busy" THEN "saved" ELSE status[g]
      /\ \A h \in Groups \ {g} : status'[h] = status[h]
  BY <1>2, <1>3 DEF SavedInv
<1>6. SavedInv'
  BY <1>2, <1>3, <1>4, <1>5, CommitSaved DEF Groups
<1>7. CountInv'
  BY <1>2, <1>3, CommitCounted DEF CountInv, CounterCounts
<1>8. QED
  BY <1>2, <1>5, <1>6, <1>7, CommitSteady DEF nvs_commit

(* Which call a task is at. *)
LEMMA CallAt ==
    ASSUME Places, NEW t \in Tasks, todo[t] # <<>>
    PROVE  \/ /\ t = "main" /\ phase = "boot"
              /\ \/ todo["main"] = save_restart_counter /\ Next1(t) = Increment
                 \/ /\ todo["main"] = <<Commit("counted")>> /\ Next1(t) = Commit("counted")
                    /\ lo < view["restart_counter"]
           \/ /\ t = "event" /\ phase = "up"
              /\ \E n \in Networks, i \in {1, 2, 3, 4, 5} :
                   /\ EventAt(n, i) /\ Next1(t) = WifiCall(n)[i]
                   /\ Tail(todo[t]) = WifiLeft(n, i + 1)
           \/ /\ t = "http" /\ phase = "up"
              /\ \/ \E a \in Accounts, i \in {1, 2, 3, 4} :
                      /\ MqttAt(a, i) /\ Next1(t) = MqttCall(a)[i]
                      /\ Tail(todo[t]) = MqttLeft(a, i + 1)
                 \/ todo["http"] = erase_storage /\ Next1(t) = EraseAll
                 \/ todo["http"] = reset_restart_counter /\ Next1(t) = Reset
                 \/ /\ todo["http"] = <<Commit("reset")>> /\ Next1(t) = Commit("reset")
                    /\ view["restart_counter"] = 0 /\ lo = 0
<1>1. CASE t = "main"
  BY <1>1, ShortCalls DEF Places, MainOK, MainAt, Next1
<1>2. CASE t = "event"
  <2>1. phase = "up" /\ \E n \in Networks, i \in 1..5 : EventAt(n, i)
    BY <1>2 DEF Places, EventOK
  <2>2. PICK n \in Networks, i \in 1..5 : EventAt(n, i)
    BY <2>1
  <2>3. Next1(t) = WifiCall(n)[i] /\ Tail(todo[t]) = WifiLeft(n, i + 1)
    BY <1>2, <2>2, EventCall, Zenon
  <2>4. i \in {1, 2, 3, 4, 5}
    OBVIOUS
  <2>5. QED
    BY <1>2, <2>1, <2>2, <2>3, <2>4, Zenon
<1>3. CASE t = "http"
  <2>1. phase = "up"
    BY <1>3 DEF Places, HttpOK
  <2>2. CASE \E a \in Accounts, i \in 1..4 : MqttAt(a, i)
    <3>1. PICK a \in Accounts, i \in 1..4 : MqttAt(a, i)
      BY <2>2
    <3>2. Next1(t) = MqttCall(a)[i] /\ Tail(todo[t]) = MqttLeft(a, i + 1)
      BY <1>3, <3>1, HttpCall, Zenon
    <3>3. i \in {1, 2, 3, 4}
      OBVIOUS
    <3>4. QED
      BY <1>3, <2>1, <3>1, <3>2, <3>3, Zenon
  <2>3. CASE todo["http"] = erase_storage \/ ResetAt
    BY <1>3, <2>1, <2>3, ShortCalls DEF ResetAt, Next1
  <2>4. QED
    BY <1>3, <2>2, <2>3 DEF Places, HttpOK
<1>4. QED
  BY <1>1, <1>2, <1>3 DEF Tasks

(* nvs_set_str keeps the invariant, in each of the places where it is       *)
(* called.                                                                  *)
LEMMA SetKeeps ==
    ASSUME StorageInv, NEW t \in Tasks, CallSet(t)
    PROVE  StorageInv'
<1>0. Places /\ SavedInv /\ todo[t] # <<>> /\ Next1(t).call = "set" /\ phase' = phase /\ Returns(t)
      /\ lo' = lo
  BY DEF StorageInv, CallSet
<1>1. DOMAIN todo' = Tasks /\ todo'[t] = Tail(todo[t]) /\ \A u \in Tasks \ {t} : todo'[u] = todo[u]
  BY <1>0, Returned
<1>2. CASE t = "event"
  <2>1. PICK n \in Networks, i \in {1, 2, 3, 4, 5} :
          /\ EventAt(n, i) /\ Next1(t) = WifiCall(n)[i] /\ Tail(todo[t]) = WifiLeft(n, i + 1)
    BY <1>0, <1>2, CallAt
  <2>2. phase = "up" /\ n.ssid \in Ssids /\ n.password \in Passwords
    BY <1>0, <1>2, CallAt DEF Networks
  <2>3. /\ WifiCall(n)[1] = Set("last_ssid", n.ssid, "wifi")
        /\ WifiCall(n)[2] = Set("last_password", n.password, "wifi")
        /\ WifiCall(n)[3] = Commit("wifi")
        /\ WifiCall(n)[4] = Set(n.ssid, n.password, n.ssid)
        /\ WifiCall(n)[5] = Commit(n.ssid)
    BY DEF WifiCall
  <2>4. i \in {1, 2, 4}
    BY <1>0, <2>1, <2>3 DEF Commit
  <2>5. /\ SavedInv' /\ CountInv' /\ Steady /\ view'["restart_counter"] = view["restart_counter"]
        /\ \A h \in Groups : status'[h] = "saved" => status[h] = "saved"
        /\ i = 1 => view'["last_ssid"] = written'["last_ssid"] /\ status'["wifi"] = "busy"
        /\ i = 2 => view'["last_password"] = written'["last_password"]
        /\ i = 4 => view'[n.ssid] = written'[n.ssid]
    <3>1. CASE i = 1
      <4>1. Next1(t) = Set("last_ssid", n.ssid, "wifi")
        BY <2>1, <2>3, <3>1
      <4>2. "wifi" \in Groups /\ "last_ssid" \in KeysOf("wifi") /\ n.ssid \in Vals
            /\ FirstKey("wifi") = "last_ssid"
        BY <2>2, KeysOfGroups DEF Groups, Vals, WifiKeys
      <4>3. QED
        BY <3>1, <4>1, <4>2, <2>2, SetEffect, SMTT(60)
    <3>2. CASE i = 2
      <4>1. Next1(t) = Set("last_password", n.password, "wifi") /\ status["wifi"] # "saved"
        BY <2>1, <2>3, <3>2 DEF EventAt
      <4>2. "wifi" \in Groups /\ "last_password" \in KeysOf("wifi") /\ n.password \in Vals
        BY <2>2, KeysOfGroups DEF Groups, Vals, WifiKeys
      <4>3. QED
        BY <3>2, <4>1, <4>2, <2>2, SetEffect
    <3>3. CASE i = 4
      <4>1. Next1(t) = Set(n.ssid, n.password, n.ssid)
        BY <2>1, <2>3, <3>3
      <4>2. /\ n.ssid \in Groups /\ n.ssid \in KeysOf(n.ssid) /\ n.password \in Vals
            /\ FirstKey(n.ssid) = n.ssid /\ n.ssid # "last_ssid"
        BY <2>2, KeysOfGroups, KeysAreDistinct DEF Groups, Vals, WifiKeys
      <4>3. QED
        BY <3>3, <4>1, <4>2, <2>2, SetEffect
    <3>4. QED
      BY <2>4, <3>1, <3>2, <3>3
  <2>6. EventAt(n, i + 1)'
    <3>1. todo'["event"] = WifiLeft(n, i + 1)
      BY <1>1, <1>2, <2>1, Zenon
    <3>2. CASE i = 1
      BY <3>1, <3>2, <2>5 DEF EventAt, Agree
    <3>3. CASE i = 2
      BY <3>1, <3>3, <2>1, <2>5 DEF EventAt, Agree, Steady, WifiKeys, Keys, WifiNamespace
    <3>4. CASE i = 4
      BY <3>1, <3>4, <2>5 DEF EventAt, Agree
    <3>5. QED
      BY <2>4, <3>2, <3>3, <3>4
  <2>7. EventOK'
    BY <2>2, <2>4, <2>6, <1>0 DEF EventOK
  <2>8. HttpOK' /\ MainOK'
    BY <1>0, <1>1, <1>2, <2>5, HttpKept, MainKept DEF Places, Tasks, Groups
  <2>9. QED
    BY <1>1, <2>5, <2>7, <2>8 DEF StorageInv, Places
<1>3. CASE t = "http"
  <2>1. PICK a \in Accounts, i \in {1, 2, 3, 4} :
          /\ MqttAt(a, i) /\ Next1(t) = MqttCall(a)[i] /\ Tail(todo[t]) = MqttLeft(a, i + 1)
    BY <1>0, <1>3, CallAt, SMTT(60) DEF EraseAll, Reset, Commit
  <2>2. phase = "up"
    BY <1>0, <1>3, CallAt
  <2>3. /\ MqttCall(a)[1] = Set("mqtt_user", a, "mqtt")
        /\ MqttCall(a)[2] = Set("mqtt_pass", a, "mqtt")
        /\ MqttCall(a)[3] = Set("mqtt_id", a, "mqtt")
        /\ MqttCall(a)[4] = Commit("mqtt")
    BY DEF MqttCall, save_last_connected_mqtt
  <2>4. i \in {1, 2, 3}
    BY <1>0, <2>1, <2>3, SMTT(60) DEF Commit
  <2>. DEFINE k == CASE i = 1 -> "mqtt_user" [] i = 2 -> "mqtt_pass" [] OTHER -> "mqtt_id"
  <2>5. /\ SavedInv' /\ CountInv' /\ Steady /\ view'["restart_counter"] = view["restart_counter"]
        /\ \A h \in Groups : status'[h] = "saved" => status[h] = "saved"
        /\ view'[k] = written'[k] /\ (i = 1 => status'["mqtt"] = "busy")
    <3>1. Next1(t) = Set(k, a, "mqtt")
      BY <2>1, <2>3, <2>4
    <3>2. "mqtt" \in Groups /\ k \in KeysOf("mqtt") /\ a \in Vals /\ k # "last_ssid"
          /\ FirstKey("mqtt") = "mqtt_user"
      BY KeysOfGroups DEF Groups, Vals, MqttKeys
    <3>3. k # FirstKey("mqtt") => status["mqtt"] # "saved"
      BY <2>1, <2>4, <3>2 DEF MqttAt
    <3>. HIDE DEF k
    <3>4. /\ SavedInv' /\ CountInv' /\ Steady /\ view'["restart_counter"] = view["restart_counter"]
          /\ \A h \in Groups : status'[h] = "saved" => status[h] = "saved"
          /\ view'[k] = written'[k] /\ (k = FirstKey("mqtt") => status'["mqtt"] = "busy")
      BY <3>1, <3>2, <3>3, SetEffect
    <3>5. QED
      BY <3>2, <3>4 DEF k
  <2>6. MqttAt(a, i + 1)'
    <3>1. todo'["http"] = MqttLeft(a, i + 1)
      BY <1>1, <1>3, <2>1, Zenon
    <3>2. CASE i = 1
      BY <3>1, <3>2, <2>5 DEF MqttAt, Agree
    <3>3. CASE i = 2
      <4>1. status'["mqtt"] # "saved"
        BY <2>1, <2>5, <3>3 DEF MqttAt, Groups
      <4>2. QED
        BY <3>1, <3>3, <4>1, <2>1, <2>5 DEF MqttAt, Agree, Steady, MqttKeys, Keys, WifiNamespace
    <3>4. CASE i = 3
      BY <3>1, <3>4, <2>1, <2>5 DEF MqttAt, Agree, Steady, MqttKeys, Keys, WifiNamespace
    <3>5. QED
      BY <2>4, <3>2, <3>3, <3>4
  <2>7. HttpOK'
    BY <2>2, <2>4, <2>6, <1>0 DEF HttpOK
  <2>8. EventOK' /\ MainOK'
    BY <1>0, <1>1, <1>3, <2>5, EventKept, MainKept DEF Places, Tasks, Groups
  <2>9. QED
    BY <1>1, <2>5, <2>7, <2>8 DEF StorageInv, Places
<1>4. CASE t = "main"
  BY <1>0, <1>4, CallAt DEF Increment, Commit
<1>5. QED
  BY <1>2, <1>3, <1>4 DEF Tasks

(* nvs_commit keeps the invariant, in each of the places where it is called. *)
LEMMA CommitKeeps ==
    ASSUME StorageInv, NEW t \in Tasks, CallCommit(t)
    PROVE  StorageInv'
<1>0. /\ Places /\ SavedInv /\ CountInv /\ todo[t] # <<>> /\ Next1(t).call = "commit"
      /\ phase' = phase /\ Returns(t) /\ nvs_commit
  BY DEF StorageInv, CallCommit
<1>1. DOMAIN todo' = Tasks /\ todo'[t] = Tail(todo[t]) /\ \A u \in Tasks \ {t} : todo'[u] = todo[u]
  BY <1>0, Returned
<1>l. "counted" \notin Groups /\ "reset" \notin Groups /\ "wifi" \in Groups /\ "mqtt" \in Groups
  BY KeysAreDistinct DEF Groups
<1>2. CASE t = "event"
  <2>1. PICK n \in Networks, i \in {1, 2, 3, 4, 5} :
          /\ EventAt(n, i) /\ Next1(t) = WifiCall(n)[i] /\ Tail(todo[t]) = WifiLeft(n, i + 1)
    BY <1>0, <1>2, CallAt
  <2>2. phase = "up" /\ n.ssid \in Ssids
    BY <1>0, <1>2, CallAt DEF Networks
  <2>3. i \in {3, 5} /\ Next1(t) = IF i = 3 THEN Commit("wifi") ELSE Commit(n.ssid)
    BY <1>0, <2>1 DEF WifiCall, Set
  <2>. DEFINE g == IF i = 3 THEN "wifi" ELSE n.ssid
  <2>4. /\ g \in Groups /\ Next1(t) = Commit(g) /\ Agree(KeysOf(g)) /\ g # "mqtt"
    BY <2>1, <2>2, <2>3, KeysOfGroups, KeysAreDistinct DEF EventAt, Groups
  <2>5. /\ SavedInv' /\ CountInv' /\ Steady /\ UNCHANGED <<view, lo, hi>>
        /\ status'["mqtt"] = status["mqtt"]
    <3>. HIDE DEF g
    <3>1. QED
      BY <2>4, <1>l, CommitEffect
  <2>6. EventOK'
    <3>1. todo'["event"] = WifiLeft(n, i + 1)
      BY <1>1, <1>2, <2>1, Zenon
    <3>2. CASE i = 3
      <4>1. EventAt(n, 4)'
        BY <3>1, <3>2 DEF EventAt
      <4>2. QED
        BY <4>1, <2>2, <1>0 DEF EventOK
    <3>3. CASE i = 5
      BY <3>1, <3>3, WifiSteps DEF EventOK
    <3>4. QED
      BY <2>3, <3>2, <3>3
  <2>7. HttpOK' /\ MainOK'
    BY <1>0, <1>1, <1>2, <2>5, HttpKept, MainKept DEF Places, Tasks
  <2>8. QED
    BY <1>1, <2>5, <2>6, <2>7 DEF StorageInv, Places
<1>3. CASE t = "http" /\ \E a \in Accounts, i \in {1, 2, 3, 4} :
               /\ MqttAt(a, i) /\ Next1(t) = MqttCall(a)[i] /\ Tail(todo[t]) = MqttLeft(a, i + 1)
  <2>1. PICK a \in Accounts, i \in {1, 2, 3, 4} :
          /\ MqttAt(a, i) /\ Next1(t) = MqttCall(a)[i] /\ Tail(todo[t]) = MqttLeft(a, i + 1)
    BY <1>3, Zenon
  <2>2. i = 4 /\ Next1(t) = Commit("mqtt")
    BY <1>0, <2>1 DEF MqttCall, save_last_connected_mqtt, Set
  <2>3. Agree(KeysOf("mqtt"))
    BY <2>1, <2>2, KeysOfGroups DEF MqttAt, Agree, MqttKeys
  <2>4. /\ SavedInv' /\ CountInv' /\ Steady /\ UNCHANGED <<view, lo, hi>>
        /\ status'["wifi"] = status["wifi"]
    BY <2>2, <2>3, <1>l, CommitEffect
  <2>5. HttpOK'
    <3>0. i + 1 = 5
      BY <2>2
    <3>1. todo'["http"] = MqttLeft(a, 5)
      BY <1>1, <1>3, <2>1, <3>0, Zenon
    <3>2. MqttLeft(a, 5) = <<>>
      BY MqttSteps
    <3>3. QED
      BY <3>1, <3>2 DEF HttpOK
  <2>6. EventOK' /\ MainOK'
    BY <1>0, <1>1, <1>3, <2>4, EventKept, MainKept DEF Places, Tasks
  <2>7. QED
    BY <1>1, <2>4, <2>5, <2>6 DEF StorageInv, Places
<1>4. CASE /\ t = "http" /\ Next1(t) = Commit("reset") /\ todo["http"] = <<Commit("reset")>>
           /\ view["restart_counter"] = 0 /\ lo = 0
  <2>1. hi' = 0 /\ UNCHANGED <<status, lo>>
    BY <1>4, <1>l DEF CallCommit, Commit
  <2>2. SavedInv'
    BY <2>1, <1>0, CommitSaved DEF SavedInv
  <2>3. CountInv'
    BY <2>1, <1>0, <1>4, CommitCounted
  <2>4. HttpOK'
    BY <1>1, <1>4, ShortCalls DEF HttpOK
  <2>5. EventOK' /\ MainOK'
    BY <1>0, <1>1, <1>4, <2>1, EventKept, MainKept, CommitSteady DEF Places, Tasks, nvs_commit
  <2>6. QED
    BY <1>1, <2>2, <2>3, <2>4, <2>5 DEF StorageInv, Places
<1>5. CASE /\ t = "main" /\ Next1(t) = Commit("counted") /\ todo["main"] = <<Commit("counted")>>
           /\ lo < view["restart_counter"] /\ phase = "boot"
  <2>1. lo' = lo + 1 /\ UNCHANGED <<status, hi>>
    BY <1>5, <1>l DEF CallCommit, Commit
  <2>2. SavedInv'
    BY <2>1, <1>0, CommitSaved DEF SavedInv
  <2>3. CountInv'
    BY <2>1, <1>0, <1>5, CommitCounted DEF CountInv, CounterCounts
  <2>4. MainOK'
    BY <1>1, <1>5, ShortCalls DEF MainOK
  <2>5. EventOK' /\ HttpOK'
    BY <1>0, <1>1, <1>5, <2>1, EventKept, HttpKept, CommitSteady DEF Places, Tasks
  <2>6. QED
    BY <1>1, <2>2, <2>3, <2>4, <2>5 DEF StorageInv, Places
<1>6. QED
  BY <1>0, <1>2, <1>3, <1>4, <1>5, CallAt, SMTT(60) DEF Increment, EraseAll, Reset

(* The nvs_set_i32 of save_restart_counter keeps the invariant. *)
LEMMA IncrementKeeps ==
    ASSUME StorageInv, NEW t \in Tasks, CallIncrement(t)
    PROVE  StorageInv'
<1>0. /\ Places /\ SavedInv /\ CountInv /\ todo[t] # <<>> /\ Next1(t).call = "increment"
      /\ nvs_write({"restart_counter"}, view["restart_counter"] + 1)
      /\ hi' = hi + 1 /\ UNCHANGED <<phase, mode, status, lo>> /\ Returns(t)
  BY DEF StorageInv, CallIncrement
<1>1. DOMAIN todo' = Tasks /\ todo'[t] = Tail(todo[t]) /\ \A u \in Tasks \ {t} : todo'[u] = todo[u]
  BY <1>0, Returned
<1>2. t = "main" /\ phase = "boot" /\ todo["main"] = save_restart_counter
  BY <1>0, CallAt, SMTT(60) DEF Increment, EraseAll, Reset, Commit, Set, WifiCall, MqttCall,
                      save_last_connected_mqtt
<1>3. /\ {"restart_counter"} \in SUBSET Keys /\ "restart_counter" \in Keys
      /\ view["restart_counter"] + 1 \in Vals
  BY <1>0 DEF Keys, CountInv, Vals
<1>4. WriteEffect({"restart_counter"}, view["restart_counter"] + 1)
  BY <1>0, <1>3, WriteApplied
<1>5. SavedInv'
  <2>1. \A g \in Groups : KeysOf(g) \cap {"restart_counter"} = {}
    BY KeysOfGroups
  <2>2. written'["last_ssid"] = written["last_ssid"]
    BY <1>4 DEF WriteEffect, Keys, WifiNamespace, WifiKeys
  <2>3. QED
    BY <1>0, <1>3, <2>1, <2>2, WriteSaved, Zenon DEF SavedInv
<1>6. CountInv'
  <2>1. /\ lo' \in Nat /\ hi' \in Nat /\ lo' <= lo /\ hi <= hi'
        /\ view["restart_counter"] + 1 \in Nat
        /\ lo' <= view["restart_counter"] + 1 /\ view["restart_counter"] + 1 <= hi'
    BY <1>0 DEF CountInv, CounterCounts
  <2>2. QED
    BY <1>0, <1>3, <2>1, WriteCounted, Zenon
<1>7. MainOK'
  <2>1. view'["restart_counter"] = view["restart_counter"] + 1 /\ lo' < view'["restart_counter"]
    BY <1>0, <1>3, <1>4 DEF WriteEffect, CountInv, CounterCounts
  <2>2. QED
    BY <1>0, <1>1, <1>2, <2>1, ShortCalls, Zenon DEF MainOK, MainAt
<1>8. EventOK' /\ HttpOK'
  BY <1>0, <1>1, <1>2 DEF Places, EventOK, HttpOK, Tasks
<1>9. QED
  BY <1>1, <1>5, <1>6, <1>7, <1>8 DEF StorageInv, Places

(* The nvs_set_i32 of reset_restart_counter keeps the invariant. *)
LEMMA ResetKeeps ==
    ASSUME StorageInv, NEW t \in Tasks, CallReset(t)
    PROVE  StorageInv'
<1>0. /\ Places /\ SavedInv /\ CountInv /\ todo[t] # <<>> /\ Next1(t).call = "reset"
      /\ nvs_write({"restart_counter"}, 0)
      /\ lo' = 0 /\ UNCHANGED <<phase, mode, status, hi>> /\ Returns(t)
  BY DEF StorageInv, CallReset
<1>1. DOMAIN todo' = Tasks /\ todo'[t] = Tail(todo[t]) /\ \A u \in Tasks \ {t} : todo'[u] = todo[u]
  BY <1>0, Returned
<1>2. t = "http" /\ phase = "up" /\ todo["http"] = reset_restart_counter
  BY <1>0, CallAt, SMTT(60) DEF Increment, EraseAll, Reset, Commit, Set, WifiCall, MqttCall,
                      save_last_connected_mqtt
<1>3. {"restart_counter"} \in SUBSET Keys /\ "restart_counter" \in Keys /\ 0 \in Vals
  BY DEF Keys, Vals
<1>4. WriteEffect({"restart_counter"}, 0)
  BY <1>0, <1>3, WriteApplied
<1>5. SavedInv'
  <2>1. \A g \in Groups : KeysOf(g) \cap {"restart_counter"} = {}
    BY KeysOfGroups
  <2>2. written'["last_ssid"] = written["last_ssid"]
    BY <1>4 DEF WriteEffect, Keys, WifiNamespace, WifiKeys
  <2>3. QED
    BY <1>0, <1>3, <2>1, <2>2, WriteSaved, Zenon DEF SavedInv
<1>6. CountInv'
  <2>1. lo' \in Nat /\ hi' \in Nat /\ lo' <= lo /\ hi <= hi' /\ lo' <= 0 /\ 0 <= hi'
    BY <1>0 DEF CountInv
  <2>2. QED
    BY <1>0, <1>3, <2>1, WriteCounted
<1>7. HttpOK'
  <2>1. view'["restart_counter"] = 0
    BY <1>3, <1>4 DEF WriteEffect
  <2>2. QED
    BY <1>0, <1>1, <1>2, <2>1, ShortCalls, Zenon DEF HttpOK, ResetAt
<1>8. EventOK' /\ MainOK'
  BY <1>0, <1>1, <1>2, <1>3, WriteSteady, EventKept, MainKept DEF Places, Tasks
<1>9. QED
  BY <1>1, <1>5, <1>6, <1>7, <1>8 DEF StorageInv, Places

(* nvs_erase_all keeps the invariant. *)
LEMMA EraseKeeps ==
    ASSUME StorageInv, NEW t \in Tasks, CallErase(t)
    PROVE  StorageInv'
<1>0. /\ Places /\ SavedInv /\ CountInv /\ todo[t] # <<>> /\ Next1(t).call = "erase"
      /\ nvs_write(WifiNamespace, Empty)
      /\ status' = [g \in Groups |-> "spoiled"]
      /\ UNCHANGED <<phase, mode, lo, hi>> /\ Returns(t)
  BY DEF StorageInv, CallErase
<1>1. DOMAIN todo' = Tasks /\ todo'[t] = Tail(todo[t]) /\ \A u \in Tasks \ {t} : todo'[u] = todo[u]
  BY <1>0, Returned
<1>2. t = "http" /\ phase = "up" /\ todo["http"] = erase_storage
  BY <1>0, CallAt, SMTT(60) DEF Increment, EraseAll, Reset, Commit, Set, WifiCall, MqttCall,
                      save_last_connected_mqtt
<1>3. WifiNamespace \in SUBSET Keys /\ Empty \in Vals /\ "restart_counter" \notin WifiNamespace
  BY KeysOfGroups DEF Keys, Vals
<1>4. status' \in [Groups -> {"saved", "busy", "spoiled"}]
      /\ \A g \in Groups : status'[g] = "spoiled"
  BY <1>0
<1>5. SavedInv'
  BY <1>0, <1>3, <1>4, WriteSaved DEF Groups
<1>6. CountInv'
  <2>1. lo' \in Nat /\ hi' \in Nat /\ lo' <= lo /\ hi <= hi'
    BY <1>0 DEF CountInv
  <2>2. QED
    BY <1>0, <1>3, <2>1, WriteCounted
<1>7. HttpOK'
  BY <1>1, <1>2, ShortCalls, Zenon DEF HttpOK
<1>8. EventOK' /\ MainOK'
  <2>1. status'["wifi"] # "saved"
    BY <1>4 DEF Groups
  <2>2. QED
    BY <1>0, <1>1, <1>2, <1>3, <2>1, WriteSteady, EventKept, MainKept DEF Places, Tasks
<1>9. QED
  BY <1>1, <1>5, <1>6, <1>7, <1>8 DEF StorageInv, Places

(* storage_init keeps the invariant, with and without erasing the flash. *)
LEMMA BootKeeps ==
    ASSUME StorageInv, Boot
    PROVE  StorageInv'
<1>0. Places /\ SavedInv /\ CountInv
  BY DEF StorageInv
<1>1. todo["event"] = <<>> /\ todo["http"] = <<>>
  BY <1>0 DEF Boot, Places, EventOK, HttpOK
<1>2. Places'
  BY <1>0, <1>1 DEF Boot, Places, MainOK, MainAt, EventOK, HttpOK, Tasks
<1>3. NoSettings["restart_counter"] = 0 /\ DOMAIN NoSettings = Keys
  BY DEF NoSettings, Keys
<1>4. SavedInv'
  <2>1. CASE UNCHANGED <<flash, view, status, lo>>
    BY <2>1, <1>0 DEF Boot, SavedInv, SettingsSurvive
  <2>2. CASE /\ flash' = NoSettings /\ view' = NoSettings
             /\ status' = [g \in Groups |-> "spoiled"]
    <3>1. \A g \in Groups : status'[g] = "spoiled"
      BY <2>2
    <3>2. "wifi" \in Groups
      BY DEF Groups
    <3>3. QED
      BY <2>2, <3>1, <3>2, <1>0, <1>3 DEF Boot, SavedInv, SettingsSurvive
  <2>3. QED
    BY <2>1, <2>2 DEF Boot, storage_init
<1>5. CountInv'
  BY <1>0, <1>3 DEF Boot, storage_init, CountInv, CounterCounts
<1>6. QED
  BY <1>2, <1>4, <1>5 DEF StorageInv

(* Starting to run a function changes nothing that is stored. *)
LEMMA StartKept ==
    ASSUME StorageInv, UNCHANGED <<nvsVars, histVars>>
    PROVE  SavedInv' /\ CountInv' /\ Steady
BY DEF StorageInv, SavedInv, SettingsSurvive, CountInv, CounterCounts, Steady, nvsVars, histVars

(* A task that starts a function has all of its calls left. *)
LEMMA Started ==
    ASSUME StorageInv, NEW t \in Tasks, NEW calls, Starts(t, calls)
    PROVE  /\ UNCHANGED <<nvsVars, histVars>>
           /\ DOMAIN todo' = Tasks /\ todo'[t] = calls /\ phase' = "up" /\ phase = "up"
           /\ \A u \in Tasks \ {t} : todo'[u] = todo[u]
BY DEF StorageInv, Starts, Places

(* SYSTEM_EVENT_STA_CONNECTED keeps the invariant. *)
LEMMA EventKeeps ==
    ASSUME StorageInv, NEW n \in Networks, StaConnected(n)
    PROVE  StorageInv'
<1>1. /\ UNCHANGED <<nvsVars, histVars>>
      /\ DOMAIN todo' = Tasks /\ todo'["event"] = WifiLeft(n, 1)
      /\ phase' = "up" /\ phase = "up"
      /\ todo'["main"] = todo["main"] /\ todo'["http"] = todo["http"]
  BY Started, WifiSteps, Zenon DEF StaConnected, Tasks
<1>2. EventAt(n, 1)'
  BY <1>1 DEF EventAt
<1>3. EventOK'
  BY <1>1, <1>2 DEF EventOK
<1>4. MainOK' /\ HttpOK'
  BY <1>1, StartKept, MainKept, HttpKept DEF StorageInv, Places, nvsVars, histVars
<1>5. QED
  BY <1>1, <1>3, <1>4, StartKept DEF StorageInv, Places

(* A page of the HTTP server. *)
LEMMA PageStarted ==
    ASSUME StorageInv, NEW calls, Starts("http", calls),
           \/ \E a \in Accounts : calls = MqttLeft(a, 1)
           \/ calls \in {erase_storage, reset_restart_counter}
    PROVE  StorageInv'
<1>1. /\ UNCHANGED <<nvsVars, histVars>>
      /\ DOMAIN todo' = Tasks /\ todo'["http"] = calls
      /\ phase' = "up" /\ phase = "up"
      /\ todo'["main"] = todo["main"] /\ todo'["event"] = todo["event"]
  BY Started DEF Tasks
<1>2. HttpOK'
  <2>1. CASE \E a \in Accounts : calls = MqttLeft(a, 1)
    <3>1. PICK a \in Accounts : calls = MqttLeft(a, 1)
      BY <2>1
    <3>2. MqttAt(a, 1)'
      BY <3>1, <1>1 DEF MqttAt
    <3>3. QED
      BY <3>2, <1>1 DEF HttpOK
  <2>2. CASE calls \in {erase_storage, reset_restart_counter}
    BY <2>2, <1>1 DEF HttpOK, ResetAt
  <2>3. QED
    BY <2>1, <2>2
<1>3. MainOK' /\ EventOK'
  BY <1>1, StartKept, MainKept, EventKept DEF StorageInv, Places, nvsVars, histVars
<1>4. QED
  BY <1>1, <1>2, <1>3, StartKept DEF StorageInv, Places

(* The page that takes the MQTT account keeps the invariant. *)
LEMMA PageKeeps ==
    ASSUME StorageInv, NEW a \in Accounts, MqttSetup(a)
    PROVE  StorageInv'
<1>1. Starts("http", MqttLeft(a, 1))
  BY MqttSteps DEF MqttSetup
<1>2. QED
  BY <1>1, PageStarted

(* The end of app_main, and the pages without input, keep the invariant. *)
LEMMA PhaseKeeps ==
    ASSUME StorageInv, wifi_start \/ EraseWifiData \/ ResetRestartCounter
    PROVE  StorageInv'
<1>1. CASE wifi_start
  <2>1. SavedInv' /\ CountInv'
    BY <1>1, StartKept DEF wifi_start
  <2>2. Places'
    BY <1>1 DEF wifi_start, StorageInv, Places, MainOK, EventOK, HttpOK
  <2>3. QED
    BY <2>1, <2>2 DEF StorageInv
<1>2. CASE EraseWifiData \/ ResetRestartCounter
  BY <1>2, PageStarted DEF EraseWifiData, ResetRestartCounter
<1>3. QED
  BY <1>1, <1>2

(* A write that reaches the flash late touches no saved settings. *)
LEMMA FlushKeeps ==
    ASSUME StorageInv, Flush
    PROVE  StorageInv'
<1>0. Places /\ SavedInv /\ CountInv
  BY DEF StorageInv
<1>1. /\ pending \in Seq(Writes) /\ Len(pending) \in Nat /\ Len(pending) >= 1
      /\ pending' = Tail(pending) /\ pending' \in Seq(Writes)
      /\ Len(pending') = Len(pending) - 1
      /\ \A i \in 1..Len(pending') : pending'[i] = pending[i + 1] /\ i + 1 \in 1..Len(pending)
      /\ Head(pending) = pending[1] /\ 1 \in 1..Len(pending)
  BY <1>0 DEF Flush, SavedInv
<1>2. /\ DOMAIN flash' = Keys
      /\ \A k \in Keys : flash'[k] = IF k \in pending[1].keys THEN pending[1].val ELSE flash[k]
  BY <1>1 DEF Flush, Applied
<1>3. UNCHANGED <<view, todo, phase, mode, written, status, lo, hi>>
  BY DEF Flush, histVars
<1>4. \A g \in Groups : status[g] = "saved" => \A k \in KeysOf(g) : flash'[k] = flash[k]
  <2>. SUFFICES ASSUME NEW g \in Groups, status[g] = "saved", NEW k \in KeysOf(g)
                PROVE  flash'[k] = flash[k]
    OBVIOUS
  <2>1. KeysOf(g) \cap pending[1].keys = {}
    BY <1>0, <1>1 DEF SavedInv
  <2>2. QED
    BY <2>1, <1>2, KeysOfGroups
<1>5. \A g \in Groups : status'[g] = "saved" =>
        \A i \in 1..Len(pending') : KeysOf(g) \cap pending'[i].keys = {}
  BY <1>0, <1>1, <1>3 DEF SavedInv
<1>6. SavedInv'
  BY <1>0, <1>1, <1>2, <1>3, <1>4, <1>5 DEF SavedInv, SettingsSurvive
<1>7. flash'["restart_counter"] \in Nat /\ lo <= flash'["restart_counter"]
      /\ flash'["restart_counter"] <= hi
  BY <1>0, <1>1, <1>2 DEF CountInv, CounterCounts, Keys
<1>8. \A i \in 1..Len(pending') : "restart_counter" \in pending'[i].keys =>
        pending'[i].val \in Nat /\ lo <= pending'[i].val /\ pending'[i].val <= hi
  BY <1>0, <1>1 DEF CountInv
<1>9. CountInv'
  BY <1>0, <1>3, <1>7, <1>8 DEF CountInv, CounterCounts
<1>10. Steady
  BY <1>3 DEF Steady
<1>11. Places'
  BY <1>0, <1>3, <1>10, MainKept, EventKept, HttpKept DEF Places
<1>12. QED
  BY <1>6, <1>9, <1>11 DEF StorageInv

(* A restart loses writes, and none of a saved group. *)
LEMMA RestartKeeps ==
    ASSUME StorageInv, Restart
    PROVE  StorageInv'
<1>0. Places /\ SavedInv /\ CountInv
  BY DEF StorageInv
<1>1. Places'
  BY DEF Restart, Places, MainOK, EventOK, HttpOK, Tasks
<1>2. /\ status' \in [Groups -> {"saved", "busy", "spoiled"}]
      /\ \A g \in Groups : status'[g] = IF status[g] = "busy" THEN "spoiled" ELSE status[g]
  BY <1>0 DEF Restart, SavedInv
<1>3. SettingsSurvive'
  BY <1>0, <1>2 DEF Restart, SavedInv, SettingsSurvive
<1>4. SavedInv'
  BY <1>0, <1>2, <1>3 DEF Restart, SavedInv, Groups
<1>5. CountInv'
  BY <1>0 DEF Restart, CountInv, CounterCounts
<1>6. QED
  BY <1>1, <1>4, <1>5 DEF StorageInv

-----------------------------------------------------------------------------
(* The inductive invariant: where each task is, what is saved, and what    *)
(* the counter may be.                                                     *)
THEOREM StorageInvariant == Spec => []StorageInv
<1>1. Init => StorageInv
  <2>. SUFFICES ASSUME Init
                PROVE  StorageInv
    OBVIOUS
  <2>1. NoSettings["restart_counter"] = 0 /\ DOMAIN NoSettings = Keys
    BY DEF NoSettings, Keys
  <2>2. Places
    BY DEF Init, Places, MainOK, EventOK, HttpOK, Tasks
  <2>3. \A g \in Groups : status[g] = "spoiled"
    BY DEF Init
  <2>4. SavedInv
    BY <2>1, <2>3 DEF Init, SavedInv, SettingsSurvive, Groups
  <2>5. CountInv
    BY <2>1 DEF Init, CountInv, CounterCounts
  <2>6. QED
    BY <2>2, <2>4, <2>5 DEF StorageInv
<1>2. StorageInv /\ [Next]_vars => StorageInv'
  <2>. SUFFICES ASSUME StorageInv, [Next]_vars
                PROVE  StorageInv'
    OBVIOUS
  <2>1. CASE Boot
    BY <2>1, BootKeeps
  <2>2. CASE wifi_start \/ EraseWifiData \/ ResetRestartCounter
    BY <2>2, PhaseKeeps
  <2>3. CASE \E n \in Networks : StaConnected(n)
    BY <2>3, EventKeeps
  <2>4. CASE \E a \in Accounts : MqttSetup(a)
    BY <2>4, PageKeeps
  <2>5. CASE \E t \in Tasks : CallSet(t)
    BY <2>5, SetKeeps
  <2>6. CASE \E t \in Tasks : CallIncrement(t)
    BY <2>6, IncrementKeeps
  <2>7. CASE \E t \in Tasks : CallReset(t)
    BY <2>7, ResetKeeps
  <2>8. CASE \E t \in Tasks : CallErase(t)
    BY <2>8, EraseKeeps
  <2>9. CASE \E t \in Tasks : CallCommit(t)
    BY <2>9, CommitKeeps
  <2>10. CASE Flush
    BY <2>10, FlushKeeps
  <2>11. CASE Restart
    BY <2>11, RestartKeeps
  <2>12. CASE UNCHANGED vars
    <3>1. Steady
      BY <2>12 DEF Steady, vars, nvsVars, histVars
    <3>2. Places'
      BY <2>12, <3>1, MainKept, EventKept, HttpKept
      DEF StorageInv, Places, vars, nvsVars, histVars
    <3>3. QED
      BY <2>12, <3>2 DEF StorageInv, SavedInv, CountInv, SettingsSurvive, CounterCounts,
                         vars, nvsVars, histVars
  <2>13. QED
    BY <2>1, <2>2, <2>3, <2>4, <2>5, <2>6, <2>7, <2>8, <2>9, <2>10, <2>11, <2>12 DEF Next
<1>3. QED
  BY <1>1, <1>2, PTL DEF Spec

(* What a storage function has saved is there, whole, after any number of  *)
(* restarts (save_wifi, save_last_connected_wifi and                       *)
(* save_last_connected_mqtt).                                              *)
THEOREM SavedSettingsSurvive == Spec => []SettingsSurvive
<1>1. StorageInv => SettingsSurvive
  BY DEF StorageInv, SavedInv
<1>2. QED
  BY <1>1, StorageInvariant, PTL

(* The restart counter counts every boot that got past                     *)
(* save_restart_counter since the last reset that began, and none from     *)
(* before the last reset that was completed.                               *)
THEOREM CounterIsExact == Spec => []CounterCounts
<1>1. StorageInv => CounterCounts
  BY DEF StorageInv, CountInv
<1>2. QED
  BY <1>1, StorageInvariant, PTL

(* wifi_start chooses the station mode whenever the last WiFi pair was     *)
(* saved and has a password.                                               *)
THEOREM SavedPairStartsStation == Spec => StationAfterSave
<1>. DEFINE Chosen == phase = "boot" /\ phase' = "up"
                        /\ status["wifi"] = "saved" /\ written["last_password"] # Empty
                        => mode' = "sta"
<1>1. StorageInv /\ [Next]_vars => [Chosen]_vars
  <2>. SUFFICES ASSUME StorageInv, Next, phase = "boot", phase' = "up",
                       status["wifi"] = "saved", written["last_password"] # Empty
                PROVE  mode' = "sta"
    OBVIOUS
  <2>1. wifi_start
    BY DEF Next, Boot, StaConnected, MqttSetup, EraseWifiData, ResetRestartCounter, Starts,
           CallSet, CallIncrement, CallReset, CallErase, CallCommit, Flush, Restart
  <2>2. /\ view["last_ssid"] = written["last_ssid"]
        /\ view["last_password"] = written["last_password"]
    BY KeysOfGroups DEF StorageInv, SavedInv, SettingsSurvive, Groups, WifiKeys
  <2>3. written["last_ssid"] # Empty
    BY KeysAreDistinct DEF StorageInv, SavedInv
  <2>4. QED
    BY <2>1, <2>2, <2>3 DEF wifi_start, StartMode, get_last_connected_wifi
<1>2. QED
  BY <1>1, StorageInvariant, PTL DEF Spec, StationAfterSave

-----------------------------------------------------------------------------
(* Types *)

(* A write of the right type keeps the type of a store. *)
LEMMA AppliedTyped ==
    ASSUME NEW s \in Stores, NEW w \in Writes, "restart_counter" \in w.keys => w.val \in Nat
    PROVE  Applied(s, w) \in Stores
<1>1. "restart_counter" \in Keys
  BY DEF Keys
<1>2. QED
  BY <1>1 DEF Stores, Applied, Writes

(* A write keeps the type of the store. *)
LEMMA WriteTyped ==
    ASSUME TypeOK, NEW ks \in SUBSET Keys, NEW v \in Vals, nvs_write(ks, v),
           "restart_counter" \in ks => v \in Nat
    PROVE  /\ flash' \in Stores /\ view' \in Stores /\ written' \in Stores
           /\ pending' \in Seq(Writes)
<1>1. [keys |-> ks, val |-> v] \in Writes
  BY DEF Writes, Vals
<1>2. ASSUME NEW s \in Stores
      PROVE  Applied(s, [keys |-> ks, val |-> v]) \in Stores
  BY <1>1, <1>2, AppliedTyped
<1>3. pending \in Seq(Writes)
  BY DEF TypeOK, Writes
<1>4. QED
  BY <1>1, <1>2, <1>3 DEF nvs_write, TypeOK

(* The next call of a task, and those after it, are calls of storage        *)
(* functions.                                                               *)
LEMMA NextTyped ==
    ASSUME TypeOK, NEW t \in Tasks, todo[t] # <<>>
    PROVE  /\ Next1(t) \in NvsCalls
           /\ Returns(t) => todo' \in [Tasks -> Seq(NvsCalls)]
<1>1. todo[t] \in Seq(NvsCalls)
  BY DEF TypeOK
<1>2. Head(todo[t]) \in NvsCalls /\ Tail(todo[t]) \in Seq(NvsCalls)
  BY <1>1
<1>3. QED
  BY <1>2, Zenon DEF Next1, Returns, TypeOK

(* The storage functions are sequences of such calls. *)
LEMMA CallsTyped ==
    /\ save_restart_counter \in Seq(NvsCalls)
    /\ reset_restart_counter \in Seq(NvsCalls)
    /\ erase_storage \in Seq(NvsCalls)
    /\ \A n \in Networks : save_last_connected_wifi(n) \o save_wifi(n) \in Seq(NvsCalls)
    /\ \A a \in Accounts : save_last_connected_mqtt(a) \in Seq(NvsCalls)
<1>1. Increment \in NvsCalls /\ Reset \in NvsCalls /\ EraseAll \in NvsCalls
  BY DEF NvsCalls
<1>2. \A g \in Groups \cup {"counted", "reset"} : Commit(g) \in NvsCalls
  BY DEF NvsCalls
<1>3. ASSUME NEW g \in Groups, NEW k \in KeysOf(g), NEW v \in Ssids \cup Passwords \cup Accounts
      PROVE  Set(k, v, g) \in NvsCalls
  BY DEF NvsCalls
<1>4. save_restart_counter \in Seq(NvsCalls) /\ reset_restart_counter \in Seq(NvsCalls)
      /\ erase_storage \in Seq(NvsCalls)
  BY <1>1, <1>2 DEF save_restart_counter, reset_restart_counter, erase_storage
<1>5. ASSUME NEW n \in Networks
      PROVE  save_last_connected_wifi(n) \o save_wifi(n) \in Seq(NvsCalls)
  <2>1. n.ssid \in Ssids /\ n.password \in Passwords
    BY DEF Networks
  <2>2. /\ Set("last_ssid", n.ssid, "wifi") \in NvsCalls
        /\ Set("last_password", n.password, "wifi") \in NvsCalls
        /\ Set(n.ssid, n.password, n.ssid) \in NvsCalls
        /\ Commit("wifi") \in NvsCalls /\ Commit(n.ssid) \in NvsCalls
    BY <2>1, <1>2, <1>3, KeysOfGroups, Zenon DEF Groups, WifiKeys
  <2>3. save_last_connected_wifi(n) \in Seq(NvsCalls) /\ save_wifi(n) \in Seq(NvsCalls)
    BY <2>2 DEF save_last_connected_wifi, save_wifi
  <2>4. QED
    BY <2>3
<1>6. ASSUME NEW a \in Accounts
      PROVE  save_last_connected_mqtt(a) \in Seq(NvsCalls)
  <2>1. /\ Set("mqtt_user", a, "mqtt") \in NvsCalls /\ Set("mqtt_pass", a, "mqtt") \in NvsCalls
        /\ Set("mqtt_id", a, "mqtt") \in NvsCalls /\ Commit("mqtt") \in NvsCalls
    BY <1>2, <1>3, KeysOfGroups DEF Groups, MqttKeys
  <2>2. QED
    BY <2>1 DEF save_last_connected_mqtt
<1>7. QED
  BY <1>4, <1>5, <1>6

(* Every key holds a value of its kind, and every call a task has left is  *)
(* one of the storage functions'.                                          *)
THEOREM StorageTypes == Spec => []TypeOK
<1>1. Init => TypeOK
  <2>. SUFFICES ASSUME Init
                PROVE  TypeOK
    OBVIOUS
  <2>1. NoSettings \in Stores
    BY DEF NoSettings, Stores, Keys
  <2>2. QED
    BY <2>1 DEF Init, TypeOK
<1>2. TypeOK /\ StorageInv /\ [Next]_vars => TypeOK'
  <2>. SUFFICES ASSUME TypeOK, StorageInv, [Next]_vars
                PROVE  TypeOK'
    OBVIOUS
  <2>0. pending \in Seq(Writes) /\ \A g \in Groups : status[g] \in {"saved", "busy", "spoiled"}
    BY DEF TypeOK, Writes
  <2>1. CASE Boot
    <3>1. NoSettings \in Stores
      BY DEF NoSettings, Stores, Keys
    <3>2. todo' \in [Tasks -> Seq(NvsCalls)]
      BY <2>1, CallsTyped, Zenon DEF Boot, TypeOK
    <3>3. status' \in [Groups -> {"saved", "busy", "spoiled"}]
      BY <2>1 DEF Boot, storage_init, TypeOK
    <3>4. QED
      BY <2>1, <3>1, <3>2, <3>3 DEF Boot, storage_init, TypeOK
  <2>2. CASE wifi_start
    BY <2>2 DEF wifi_start, StartMode, TypeOK, nvsVars, histVars
  <2>3. ASSUME NEW t \in Tasks, NEW calls \in Seq(NvsCalls), Starts(t, calls)
        PROVE  TypeOK'
    <3>1. todo' \in [Tasks -> Seq(NvsCalls)]
      BY <2>3 DEF Starts, TypeOK
    <3>2. QED
      BY <2>3, <3>1 DEF Starts, TypeOK, nvsVars, histVars
  <2>4. CASE (\E n \in Networks : StaConnected(n)) \/ (\E a \in Accounts : MqttSetup(a))
               \/ EraseWifiData \/ ResetRestartCounter
    BY <2>3, <2>4, CallsTyped, Zenon DEF StaConnected, MqttSetup, EraseWifiData, ResetRestartCounter, Tasks
  <2>5. ASSUME NEW t \in Tasks, CallSet(t)
        PROVE  TypeOK'
    <3>1. Next1(t) \in NvsCalls /\ todo' \in [Tasks -> Seq(NvsCalls)]
      BY <2>5, NextTyped DEF CallSet
    <3>2. PICK g \in Groups : \E k \in KeysOf(g), v \in Ssids \cup Passwords \cup Accounts :
            Next1(t) = Set(k, v, g)
      BY <2>5, <3>1, SMTT(60) DEF CallSet, NvsCalls, Increment, Reset, EraseAll, Commit
    <3>3. PICK k \in KeysOf(g), v \in Ssids \cup Passwords \cup Accounts : Next1(t) = Set(k, v, g)
      BY <3>2
    <3>4. {k} \in SUBSET Keys /\ k # "restart_counter" /\ v \in Vals
      BY KeysOfGroups DEF Vals
    <3>5. nvs_write({k}, v)
          /\ status' = [status EXCEPT ![g] = IF k = FirstKey(g) THEN "busy" ELSE @]
      BY <2>5, <3>3, SMTT(60) DEF CallSet, Set
    <3>6. status' \in [Groups -> {"saved", "busy", "spoiled"}]
      BY <3>5 DEF TypeOK
    <3>7. flash' \in Stores /\ view' \in Stores /\ written' \in Stores /\ pending' \in Seq(Writes)
      BY <3>4, <3>5, WriteTyped, Zenon
    <3>8. QED
      BY <2>5, <3>1, <3>6, <3>7 DEF CallSet, TypeOK, Writes
  <2>6. ASSUME NEW t \in Tasks, CallIncrement(t) \/ CallReset(t) \/ CallErase(t)
        PROVE  TypeOK'
    <3>1. todo' \in [Tasks -> Seq(NvsCalls)]
      BY <2>6, NextTyped DEF CallIncrement, CallReset, CallErase
    <3>2. view["restart_counter"] + 1 \in Nat /\ lo' \in Nat /\ hi' \in Nat
      BY <2>6 DEF CallIncrement, CallReset, CallErase, TypeOK, Stores
    <3>3. {"restart_counter"} \in SUBSET Keys /\ WifiNamespace \in SUBSET Keys
          /\ Empty \in Vals /\ 0 \in Vals /\ view["restart_counter"] + 1 \in Vals
      BY <3>2 DEF Keys, Vals
    <3>4. \/ nvs_write({"restart_counter"}, view["restart_counter"] + 1)
          \/ nvs_write({"restart_counter"}, 0)
          \/ nvs_write(WifiNamespace, Empty)
      BY <2>6 DEF CallIncrement, CallReset, CallErase
    <3>5. flash' \in Stores /\ view' \in Stores /\ written' \in Stores /\ pending' \in Seq(Writes)
      BY <3>2, <3>3, <3>4, WriteTyped, KeysOfGroups
    <3>6. status' \in [Groups -> {"saved", "busy", "spoiled"}]
          /\ UNCHANGED <<phase, mode>>
      BY <2>6 DEF CallIncrement, CallReset, CallErase, TypeOK
    <3>7. QED
      BY <3>1, <3>2, <3>5, <3>6 DEF TypeOK, Writes
  <2>7. ASSUME NEW t \in Tasks, CallCommit(t)
        PROVE  TypeOK'
    <3>1. todo' \in [Tasks -> Seq(NvsCalls)]
      BY <2>7, NextTyped DEF CallCommit
    <3>2. status' \in [Groups -> {"saved", "busy", "spoiled"}]
      BY <2>7, <2>0 DEF CallCommit, TypeOK
    <3>3. lo' \in Nat /\ hi' \in Nat
      BY <2>7 DEF CallCommit, TypeOK
    <3>4. QED
      BY <2>7, <3>1, <3>2, <3>3 DEF CallCommit, nvs_commit, TypeOK
  <2>8. CASE Flush
    <3>1. Head(pending) \in Writes /\ pending' \in Seq(Writes)
          /\ Head(pending) = pending[1] /\ 1 \in 1..Len(pending)
      BY <2>0, <2>8 DEF Flush
    <3>2. "restart_counter" \in Head(pending).keys => Head(pending).val \in Nat
      BY <3>1 DEF StorageInv, CountInv
    <3>3. flash' \in Stores
      BY <2>8, <3>1, <3>2, AppliedTyped DEF Flush, TypeOK
    <3>4. QED
      BY <2>8, <3>1, <3>3 DEF Flush, TypeOK, Writes, histVars
  <2>9. CASE Restart
    <3>1. status' \in [Groups -> {"saved", "busy", "spoiled"}]
      BY <2>9, <2>0 DEF Restart
    <3>2. QED
      BY <2>9, <3>1 DEF Restart, TypeOK
  <2>10. CASE UNCHANGED vars
    BY <2>10 DEF TypeOK, vars, nvsVars, histVars
  <2>11. QED
    BY <2>1, <2>2, <2>4, <2>5, <2>6, <2>7, <2>8, <2>9, <2>10 DEF Next
<1>3. QED
  BY <1>1, <1>2, StorageInvariant, PTL DEF Spec
=============================================================================
