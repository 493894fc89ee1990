----------------------------- MODULE SensorData -----------------------------
(***************************************************************************)
(* What the firmware does with the readings of the sensor tag:             *)
(* ESP_GATTC_NOTIFY_EVT and ESP_GATTC_READ_CHAR_EVT of                     *)
(* gattc_profile_BA5C_event_handler (Bluetooth/esp32iot_bluetooth.c),      *)
(* which convert them into BA5C_data, and cayenne_task                     *)
(* (Cayenne/esp32iot_cayenne.c), which publishes BA5C_data from another    *)
(* task with no lock in between.                                           *)
(*                                                                         *)
(* The conversions are exact, C's truncation and widths included, except   *)
(* that of the pressure: its products do not fit TLC's integers, and the   *)
(* field stands for the pair of readings that it was computed from.        *)
(***************************************************************************)
EXTENDS Integers, Sequences

CONSTANTS
    TempWords,     \* HTU21D temperature words the tag may notify
    HumWords,      \* HTU21D humidity words
    Pressures,     \* MS5637 D1 readings
    D2Readings,    \* MS5637 D2 readings
    C5, C6,        \* the tag's calibration
    Statuses,      \* status bytes of either chip
    Levels,        \* battery levels
    read_interval, \* notifications between two reads of the other values
    QueueSize      \* reads the stack queues, beyond the one under way

Byte == {n \in Nat : n < 256}
Word == {n \in Nat : n < 65536}
Signed == {n \in Int : -32768 <= n /\ n <= 32767}  \* int16_t
Reading == {n \in Nat : n < 16777216}

ASSUME DataConstants ==
    /\ TempWords \subseteq Word /\ HumWords \subseteq Word
    /\ Pressures \subseteq Reading /\ D2Readings \subseteq Reading
    /\ C5 \in Word /\ C6 \in Word
    /\ Statuses \subseteq Byte /\ Levels \subseteq Byte
    /\ read_interval \in 1..255 /\ QueueSize \in Nat

VARIABLES
    BA5C_data,  \* the record both tasks use
    counter,    \* the received notifications of either chip since its last reads
    words,      \* temperature and humidity word of the last HTU21D notification
    step,       \* where the callback is within the HTU21D notification
    reads,      \* the reads the stack has accepted and not answered
    battery,    \* the tag's battery level
    channel,    \* the channel cayenne_task publishes next
    published   \* the last value published on each of the Watched channels

dataVars == <<BA5C_data, counter, words, step, reads, battery, channel, published>>

Chips == {"HTU21D", "MS5637"}

Characteristics == {"HTU21D_status", "Battery_data", "MS5637_calibration", "MS5637_status"}

(* What cayenne_task publishes on each channel, from 0. *)
ChannelField ==
    <<"HTU21D_temperature", "HTU21D_humidity", "HTU21D_status", "MS5637_temperature",
      "MS5637_pressure", "MS5637_status", "Battery_level", "Battery_status">>

(* The channels a property is about: temperature, humidity, battery level. *)
Watched == {0, 1, 6}

DataTypeOK ==
    /\ BA5C_data \in [HTU21D_temperature : Signed, HTU21D_humidity : Signed,
                      HTU21D_status : Byte, MS5637_D1 : Nat, MS5637_D2 : Nat,
                      MS5637_temperature : Int, MS5637_pressure : Nat \X Nat,
                      MS5637_status : Byte, Battery_level : Byte, Battery_status : Byte]
    /\ counter \in [Chips -> 0..(read_interval - 1)]
    /\ words \in {<<>>} \cup (Word \X Word)
    /\ step \in {"idle", "temperature", "humidity"}
    /\ reads \in Seq(Characteristics) /\ Len(reads) <= QueueSize + 1
    /\ battery \in Levels /\ channel \in 0..7

DataInit ==
    /\ BA5C_data = [HTU21D_temperature |-> 0, HTU21D_humidity |-> 0, HTU21D_status |-> 0,
                    MS5637_D1 |-> 0, MS5637_D2 |-> 0, MS5637_temperature |-> 0,
                    MS5637_pressure |-> <<0, 0>>, MS5637_status |-> 0,
                    Battery_level |-> 0, Battery_status |-> 0]
    /\ counter = [c \in Chips |-> 0]
    /\ words = <<>>
    /\ step = "idle" /\ reads = <<>>
    /\ battery \in Levels
    /\ channel = 0
    /\ published = [c \in Watched |-> BA5C_data[ChannelField[c + 1]]]
-----------------------------------------------------------------------------
(* Conversions.                                                            *)

(* C's division, which truncates towards zero. *)
Trunc(n, d) == IF n >= 0 THEN n \div d ELSE -((-n) \div d)

(* A word stored in an int16_t field. *)
Int16(w) == IF w < 32768 THEN w ELSE w - 65536

(* -46.85 + 175.72 * t / 65536, in hundredths over 65536, truncated.       *)
Celsius(t) == Trunc(17572 * t - 4685 * 65536, 6553600)

(* The humidity with the quotient computed first. *)
QuotientFirst(h) == -6 + 125 * Trunc(h, 65536)

(* 125 * h / 65536 is a division of integers. *)
RelativeHumidity(h) == -6 + Trunc(125 * h, 65536)

dT(D2) == D2 - C5 * 256

(* The integer part of d * C6 / 2^23, for a product of up to 40 bits.      *)
Quotient(d) == ((d \div 4096) * C6 + ((d % 4096) * C6) \div 4096) \div 2048

(* The same for the product the code computes in an int32_t. *)
Quotient32(d) == ((Quotient(d) + 256) % 512) - 256

(* The temperature in hundredths. *)
Hundredths(D2) == 2000 + Quotient32(dT(D2))

(* (2000 + dT * C6 / 2^23) / 100, truncated. *)
MS5637_TEMP(D2) == Trunc(2000 + Quotient32(dT(D2)), 100)
-----------------------------------------------------------------------------
(* The callbacks.                                                          *)

(* Reads asked for while the stack's queue is full are refused.            *)
Accept(rs, chars) ==
    SubSeq(rs \o chars, 1, IF Len(rs \o chars) > QueueSize + 1 THEN QueueSize + 1
                           ELSE Len(rs \o chars))

(* A count that is never reset. *)
CountOnly(chip, chars) ==
    /\ counter' = [counter EXCEPT ![chip] = @ + 1]
    /\ reads' = IF counter'[chip] >= read_interval THEN Accept(reads, chars) ELSE reads

(* A count that is reset without the reads. *)
CountAndForget(chip, chars) ==
    /\ counter' = [counter EXCEPT ![chip] = (@ + 1) % read_interval]
    /\ UNCHANGED reads

(* Count a notification; every read_interval-th asks for the slow values.  *)
CountNotification(chip, chars) ==
    IF counter[chip] + 1 >= read_interval
    THEN /\ counter' = [counter EXCEPT ![chip] = 0]
         /\ reads' = Accept(reads, chars)
    ELSE /\ counter' = [counter EXCEPT ![chip] = @ + 1]
         /\ UNCHANGED reads

(* Both raw words stored in their fields. *)
StoreBothWords(t, h) ==
    /\ step = "idle"
    /\ words' = <<t, h>>
    /\ BA5C_data' = [BA5C_data EXCEPT !.HTU21D_temperature = Int16(t),
                                     !.HTU21D_humidity = Int16(h)]
    /\ step' = "temperature"
    /\ UNCHANGED <<counter, reads, battery, channel, published>>

(* The build stores the raw temperature word in the field, then converts   *)
(* it; the raw humidity never leaves a register.                           *)
NotifyHTU21D(t, h) ==
    /\ step = "idle"
    /\ words' = <<t, h>>
    /\ BA5C_data' = [BA5C_data EXCEPT !.HTU21D_temperature = Int16(t)]
    /\ step' = "temperature"
    /\ UNCHANGED <<counter, reads, battery, channel, published>>

ConvertTemperature ==
    /\ step = "temperature"
    /\ BA5C_data' = [BA5C_data EXCEPT !.HTU21D_temperature = Celsius(@)]
    /\ step' = "humidity"
    /\ UNCHANGED <<counter, words, reads, battery, channel, published>>

ConvertHumidity ==
    /\ step = "humidity"
    /\ BA5C_data' = [BA5C_data EXCEPT !.HTU21D_humidity = RelativeHumidity(Int16(words[2]))]
    /\ step' = "idle"
    /\ CountNotification("HTU21D", <<"HTU21D_status", "Battery_data">>)
    /\ UNCHANGED <<words, battery, channel, published>>

NotifyMS5637(d1, d2) ==
    /\ step = "idle"
    /\ BA5C_data' = [BA5C_data EXCEPT !.MS5637_D1 = d1, !.MS5637_D2 = d2]
    /\ CountNotification("MS5637", <<"MS5637_calibration", "MS5637_status">>)
    /\ UNCHANGED <<words, step, battery, channel, published>>

NotifyBattery(status) ==
    /\ step = "idle"
    /\ BA5C_data' = [BA5C_data EXCEPT !.Battery_level = battery, !.Battery_status = status]
    /\ UNCHANGED <<counter, words, step, reads, battery, channel, published>>

Answered(char) ==
    /\ step = "idle"
    /\ reads # <<>> /\ Head(reads) = char
    /\ reads' = Tail(reads)
    /\ UNCHANGED <<counter, words, step, battery, channel, published>>

ReadHTU21DStatus(status) ==
    /\ Answered("HTU21D_status")
    /\ BA5C_data' = [BA5C_data EXCEPT !.HTU21D_status = status]

(* The calibration is applied to the last readings, not to those that were *)
(* the last when it was asked for.                                         *)
ReadCalibration ==
    /\ Answered("MS5637_calibration")
    /\ BA5C_data' = [BA5C_data EXCEPT
                       !.MS5637_temperature = MS5637_TEMP(BA5C_data.MS5637_D2),
                       !.MS5637_pressure = <<BA5C_data.MS5637_D1, BA5C_data.MS5637_D2>>]

ReadMS5637Status(status) ==
    /\ Answered("MS5637_status")
    /\ BA5C_data' = [BA5C_data EXCEPT !.MS5637_status = status]

ReadBattery(status) ==
    /\ Answered("Battery_data")
    /\ BA5C_data' = [BA5C_data EXCEPT !.Battery_level = battery, !.Battery_status = status]

(* A read that the tag answers with an error is only logged. *)
ReadFailed ==
    /\ \E char \in Characteristics : Answered(char)
    /\ UNCHANGED BA5C_data

DataCallback ==
    \/ \E t \in TempWords, h \in HumWords : NotifyHTU21D(t, h)
    \/ ConvertTemperature \/ ConvertHumidity
    \/ \E d1 \in Pressures, d2 \in D2Readings : NotifyMS5637(d1, d2)
    \/ \E s \in Statuses : NotifyBattery(s) \/ ReadHTU21DStatus(s)
                             \/ ReadMS5637Status(s) \/ ReadBattery(s)
    \/ ReadCalibration \/ ReadFailed
-----------------------------------------------------------------------------
(* The tag and the publishing task.                                        *)

BatteryChanges ==
    /\ battery' \in Levels \ {battery}
    /\ UNCHANGED <<BA5C_data, counter, words, step, reads, channel, published>>

(* With the connection go the reads it has not answered. *)
ReadsLost ==
    /\ reads # <<>> /\ reads' = <<>>
    /\ UNCHANGED <<BA5C_data, counter, words, step, battery, channel, published>>

(* One call of CayenneMQTTPublishDataInt; after the last the loop starts   *)
(* over.                                                                   *)
cayenne_task ==
    /\ published' = [c \in Watched |-> IF c = channel THEN BA5C_data[ChannelField[c + 1]]
                                       ELSE published[c]]
    /\ channel' = (channel + 1) % 8
    /\ UNCHANGED <<BA5C_data, counter, words, step, reads, battery>>

DataNext == DataCallback \/ BatteryChanges \/ ReadsLost \/ cayenne_task

DataSpec == DataInit /\ [][DataNext]_dataVars

(* The tag notifies for ever and the two tasks run.  A read that is asked  *)
(* for again and again is answered at last.                                *)
DataFairSpec ==
    /\ DataSpec
    /\ WF_dataVars(cayenne_task)
    /\ WF_dataVars(\E t \in TempWords, h \in HumWords : NotifyHTU21D(t, h))
    /\ WF_dataVars(ConvertTemperature) /\ WF_dataVars(ConvertHumidity)
    /\ SF_dataVars(\E s \in Statuses : ReadHTU21DStatus(s))
    /\ SF_dataVars(\E s \in Statuses : ReadBattery(s))
-----------------------------------------------------------------------------
(* v is less than a degree from -46.85 + 175.72 x w / 2^16, and in the     *)
(* range of that formula.                                                  *)
IsCelsius(v, w) ==
    LET n == 17572 * w - 4685 * 65536
    IN  v \in -46..128 /\ n - 6553600 < v * 6553600 /\ v * 6553600 < n + 6553600

(* v is less than a per cent from -6 + 125 x w / 2^16, likewise. *)
IsHumidity(v, w) ==
    /\ v \in -6..118
    /\ 125 * w - 65536 < (v + 6) * 65536
    /\ (v + 6) * 65536 < 125 * w + 65536

(* Whenever the callback is done with a notification, the two fields of    *)
(* the HTU21D hold what the formulas in the handler's comments say, to     *)
(* within one unit, for words of the lower half of their range: truncated  *)
(* intermediate results and the reuse of a field for the raw word and for  *)
(* its conversion do no harm.  (A word of 2^15 or more is negative in its  *)
(* int16_t field, and so is what it is converted to.)                      *)
ReadingsFollowFormula ==
    step = "idle" /\ words # <<>> =>
        /\ words[1] < 32768 => IsCelsius(BA5C_data.HTU21D_temperature, words[1])
        /\ words[2] < 32768 => IsHumidity(BA5C_data.HTU21D_humidity, words[2])

(* Whatever cayenne_task publishes on channel 1, whenever it reads the     *)
(* field, is the humidity of a word the tag has notified, or the initial   *)
(* zero.                                                                   *)
PublishedHumidityIsMeasured ==
    published[1] = 0 \/ \E h \in HumWords : IsHumidity(published[1], h)

(* The same of channel 0 and the temperature: in degrees Celsius,          *)
(* "-46.85 + 175.72 x Temperature Word / 2 16".                            *)
PublishedTemperatureIsMeasured ==
    published[0] = 0 \/ \E t \in TempWords : IsCelsius(published[0], t)

(* The temperature of the MS5637 is, to within a degree, what the comment  *)
(* says, "TEMP = 2000 + dT x C6 / 2^23" in hundredths, of a reading the    *)
(* tag has notified, although the calibration arrives long after it.       *)
MS5637FollowsFormula ==
    \/ BA5C_data.MS5637_temperature = 0
    \/ \E d2 \in D2Readings :
          LET TEMP == 2000 + Quotient(dT(d2))
          IN  /\ TEMP - 100 < 100 * BA5C_data.MS5637_temperature
              /\ 100 * BA5C_data.MS5637_temperature < TEMP + 100

(* A battery level that stays is in the end the one that is published,     *)
(* although it is read only every read_interval notifications, reads fail  *)
(* and connections are lost with the reads under way, as long as the       *)
(* stack's queue never fills, so that it refuses none.                     *)
BatteryLevelIsPublished ==
    [](Len(reads) <= QueueSize) =>
        \A b \in Levels : <>[](battery = b) => <>[](published[6] = b)
=============================================================================
