------------------------------ MODULE Messages ------------------------------
(***************************************************************************)
(* The Cayenne layer between the application and MQTTClient: topic names   *)
(* and payloads (CayenneUtils.c), the data array they are built from, and  *)
(* the table of message handlers of CayenneMQTTClient.c.  MQTTClient is    *)
(* what this layer sees of it: a call that waits ends well or not, and     *)
(* while it waits messages arrive, whose handlers make calls of their own. *)
(* So the calls in progress are a stack.                                   *)
(***************************************************************************)
EXTENDS DataArray, FiniteSetsExt

CONSTANTS
    MaxHandlers,  \* CAYENNE_MAX_MESSAGE_HANDLERS (5)
    MaxStack,     \* bound: calls in progress, one inside the other
    Own,          \* the client ID the client was initialized with
    Requests,     \* what the application subscribes to: [clientID, topic, channel, fp]
    Names,        \* the topic names of the messages that arrive, the last levels no longer than 31
    Payloads,     \* their payloads
    Pairs,        \* the unit/value pairs the application publishes
    Types,        \* the types it publishes them with
    Room,         \* what the topic leaves of the buffer for a payload
    SizeBound     \* the number of values of size_t and of unsigned int (2^32)

CAYENNE_ALL_CHANNELS == 65535

CAYENNE_NO_CHANNEL == 65534

(* A channel level of a topic name is its characters: digits, "+" or a     *)
(* letter.  Only filters have a "+".  (Signs and white space, which strtoul *)
(* takes for part of a number, are left out.)                              *)
Digits == 0..9

Plus == 10

Letter == 11

UNIT_UNDEFINED == <<"n", "u", "l", "l">>

(* CayenneBuildTopic fails for the topic "undefined", and the client ID of *)
(* a message points into its topic name.                                   *)
ASSUME MessagesAssumption ==
    /\ MaxHandlers \in Nat /\ MaxStack \in Nat
    /\ SizeBound \in Nat /\ CAYENNE_ALL_CHANNELS < SizeBound
    /\ Room \in 0..SizeBound - 1
    /\ Pairs \subseteq Pair /\ Types \subseteq String /\ UNIT_UNDEFINED # Null
    /\ \A r \in Requests :
         r.topic # "undefined" /\ r.channel \in 0..SizeBound - 1 /\ r.fp \in BOOLEAN
    /\ \A n \in Names : n.clientID # Null /\ n.channel \in Seq(Digits \cup {Letter})

VARIABLES
    messageHandlers,        \* the table
    defaultMessageHandler,  \* whether there is one
    stack,                  \* the calls in progress, the innermost last
    crashed,                \* strcmp has read through a null pointer
    outcome,                \* the message whose delivery has just ended
    removed,                \* what was unsubscribed and not subscribed again
    nullGiven,              \* a subscription was made with a null client ID
    building,               \* the application collects values for a message
    published               \* the message it has just published

tableVars == <<messageHandlers, defaultMessageHandler, crashed, removed, nullGiven>>

callVars == <<tableVars, stack, outcome>>

publishVars == <<arrayVars, building, published>>

vars == <<callVars, publishVars>>

None == [topic |-> "none"]

-----------------------------------------------------------------------------
(* Topic names, level by level: the user's name is always the client's own. *)

Decimal[n \in Nat] == IF n < 10 THEN <<n>> ELSE Append(Decimal[n \div 10], n % 10)

BuildTopic(clientID, topic, channel) ==
    [clientID |-> IF clientID = Null THEN Own ELSE clientID,
     topic |-> topic,
     channel |-> IF channel = CAYENNE_NO_CHANNEL THEN <<>>
                 ELSE IF channel = CAYENNE_ALL_CHANNELS THEN <<Plus>>
                 ELSE Decimal[channel]]

(* strtoul: the value of all digits, but no more than an unsigned holds    *)
Number(level) ==
    LET value[k \in 0..Len(level)] == IF k = 0 THEN 0 ELSE 10 * value[k - 1] + level[k]
    IN  value[Len(level)]

Strtoul(level) == IF Number(level) < SizeBound THEN Number(level) ELSE SizeBound - 1

IsDigits(level) == \A i \in 1..Len(level) : level[i] \in Digits

(* the end of CayenneParseTopic: a number without leading zeros (mutant:   *)
(* zero is taken for no number)                                            *)
ParseChannelWithoutZero(level) ==
    IF IsDigits(level) /\ level[1] # 0 THEN Strtoul(level) ELSE CAYENNE_NO_CHANNEL

ParseChannel(level) ==
    IF IsDigits(level) /\ (level[1] # 0 \/ level = <<0>>)
    THEN Strtoul(level) ELSE CAYENNE_NO_CHANNEL

(* topicMatches with the suffixes cmd/+ and conf/+ *)
TopicParses(name) == name.topic \in {"cmd", "conf"} /\ name.channel # <<>>

(* CayenneParsePayload: a command is "id,value", other payloads are one    *)
(* value                                                                   *)
PayloadParses(name, payload) == name.topic = "cmd" => \E i \in 1..Len(payload) : payload[i] = ","

-----------------------------------------------------------------------------
NoHandler == [clientID |-> Null, topic |-> "undefined", channel |-> CAYENNE_NO_CHANNEL, fp |-> FALSE]

Slots == 1..MaxHandlers

EmptyTable == [i \in Slots |-> NoHandler]

Init ==
    /\ ArrayInit /\ buffer = [k \in Offsets |-> Nul]
    /\ building = FALSE /\ published = None
    /\ messageHandlers = EmptyTable /\ defaultMessageHandler \in BOOLEAN
    /\ stack = <<>> /\ crashed = FALSE /\ outcome = None
    /\ removed = {} /\ nullGiven = FALSE

(* a restart after the crash, or the application initializes the client    *)
(* again                                                                   *)
CayenneMQTTClientInit ==
    /\ stack = <<>> /\ ~building
    /\ messageHandlers' = EmptyTable /\ defaultMessageHandler' \in BOOLEAN
    /\ crashed' = FALSE /\ outcome' = None
    /\ removed' = {} /\ nullGiven' = FALSE
    /\ UNCHANGED <<stack, publishVars>>

Running == ~crashed /\ ~building

Top == stack[Len(stack)]

Pop == SubSeq(stack, 1, Len(stack) - 1)

Waiting == stack # <<>> /\ Top.call # "dispatch"

Dispatching(pc) == stack # <<>> /\ Top.call = "dispatch" /\ Top.pc = pc

(* the application's own code runs: its loop or a message handler *)
ApplicationRuns ==
    /\ Running /\ Len(stack) < MaxStack
    /\ stack = <<>> \/ Dispatching("handler") \/ Dispatching("default")

Crash == crashed' = TRUE /\ stack' = <<>>

-----------------------------------------------------------------------------
(* CayenneMQTTSubscribe, CayenneMQTTUnsubscribe and                        *)
(* CayenneMQTTPublishResponse up to their wait in MQTTClient               *)
Begin(call, r) ==
    /\ ApplicationRuns
    /\ stack' = Append(stack, [call |-> call, request |-> r])
    /\ nullGiven' = (nullGiven \/ (call = "subscribe" /\ r.clientID = Null))
    /\ outcome' = None
    /\ UNCHANGED <<messageHandlers, defaultMessageHandler, crashed, removed, publishVars>>

(* A dispatch further out, whose slots these are, has them changed under   *)
(* its loop.                                                               *)
Forget(changed, s) ==
    [k \in DOMAIN s |-> IF s[k].call = "dispatch" THEN [s[k] EXCEPT !.kept = @ \ changed] ELSE s[k]]

(* the slot a subscription takes: the first free one (mutant: the last     *)
(* slot is never looked at)                                                *)
FreeButLast == {i \in Slots : i < MaxHandlers /\ ~messageHandlers[i].fp}

Free == {i \in Slots : ~messageHandlers[i].fp}

SubscribeSucceeds ==
    /\ Running /\ Waiting /\ Top.call = "subscribe"
    /\ LET r == Top.request
       IN  /\ IF r.fp /\ Free # {}
              THEN /\ messageHandlers' = [messageHandlers EXCEPT ![Min(Free)] = r]
                   /\ stack' = Forget({Min(Free)}, Pop)
              ELSE messageHandlers' = messageHandlers /\ stack' = Pop
           /\ removed' = removed \ {BuildTopic(r.clientID, r.topic, r.channel)}
    /\ outcome' = None
    /\ UNCHANGED <<defaultMessageHandler, crashed, nullGiven, publishVars>>

(* the condition of CayenneMQTTUnsubscribe before its strcmp *)
Candidates(r) ==
    {i \in Slots : messageHandlers[i].topic = r.topic /\ messageHandlers[i].channel = r.channel}

SameClient(r) ==
    {i \in Candidates(r) : messageHandlers[i].clientID = BuildTopic(r.clientID, r.topic, r.channel).clientID}

(* the table without the slots of a set (mutants: without the first of     *)
(* them only; with the topic and channel left in them)                     *)
ClearedFirst(slots) ==
    [i \in Slots |-> IF i \in slots /\ i = Min(slots) THEN NoHandler ELSE messageHandlers[i]]

ClearedHandler(slots) ==
    [i \in Slots |-> IF i \in slots THEN [messageHandlers[i] EXCEPT !.clientID = Null, !.fp = FALSE]
                     ELSE messageHandlers[i]]

Cleared(slots) == [i \in Slots |-> IF i \in slots THEN NoHandler ELSE messageHandlers[i]]

(* strcmp meets a slot that was registered with a null client ID           *)
UnsubscribeCrashes ==
    /\ Running /\ Waiting /\ Top.call = "unsubscribe"
    /\ \E i \in Candidates(Top.request) : messageHandlers[i].clientID = Null
    /\ Crash
    /\ outcome' = None
    /\ UNCHANGED <<messageHandlers, defaultMessageHandler, removed, nullGiven, publishVars>>

UnsubscribeSucceeds ==
    /\ Running /\ Waiting /\ Top.call = "unsubscribe"
    /\ \A i \in Candidates(Top.request) : messageHandlers[i].clientID # Null
    /\ LET r == Top.request
       IN  /\ messageHandlers' = Cleared(SameClient(r))
           /\ stack' = Forget(SameClient(r), Pop)
           /\ removed' = removed \cup {BuildTopic(r.clientID, r.topic, r.channel)}
    /\ outcome' = None
    /\ UNCHANGED <<defaultMessageHandler, crashed, nullGiven, publishVars>>

(* MQTTClient returns a failure or another granted QoS, or the call was a  *)
(* response, which ends the same way                                       *)
CallReturns ==
    /\ Running /\ Waiting
    /\ stack' = Pop
    /\ outcome' = None
    /\ UNCHANGED <<tableVars, publishVars>>

-----------------------------------------------------------------------------
(* A PUBLISH is read into readbuf, into which the client ID of every       *)
(* message still being delivered points: with a header of the same length  *)
(* the new client ID takes its place, with another some part of the packet *)
Overwritten(s, text) ==
    [k \in DOMAIN s |-> IF s[k].call = "dispatch"
                        THEN [s[k] EXCEPT !.clientID = text, !.overwritten = TRUE] ELSE s[k]]

Delivery(name) ==
    [call |-> "dispatch", pc |-> "loop", i |-> 1, name |-> name,
     clientID |-> name.clientID, topic |-> name.topic, channel |-> ParseChannel(name.channel),
     overwritten |-> FALSE, called |-> {}, kept |-> Slots]

Ended(called, kept, name, default, overwritten) ==
    [topic |-> name.topic, name |-> name, called |-> called, kept |-> kept,
     default |-> default, overwritten |-> overwritten]

Arrives == Running /\ (stack = <<>> \/ Waiting) /\ Len(stack) < MaxStack

(* MQTTMessageArrived up to its loop *)
MQTTMessageArrived(name, payload) ==
    /\ Arrives
    /\ TopicParses(name) /\ PayloadParses(name, payload)
    /\ \E text \in {name.clientID, "other text"} :
         stack' = Append(Overwritten(stack, text), Delivery(name))
    /\ outcome' = None
    /\ UNCHANGED <<tableVars, publishVars>>

(* its early returns *)
MessageDropped(name, payload) ==
    /\ Arrives
    /\ ~TopicParses(name) \/ ~PayloadParses(name, payload)
    /\ \E text \in {name.clientID, "other text"} : stack' = Overwritten(stack, text)
    /\ outcome' = IF PayloadParses(name, payload) THEN Ended({}, Slots, name, FALSE, FALSE) ELSE None
    /\ UNCHANGED <<tableVars, publishVars>>

(* the condition of the loop before its strcmp *)
ForChannel(h, f) ==
    /\ h.fp /\ h.topic = f.topic
    /\ h.channel = f.channel \/ h.channel = CAYENNE_ALL_CHANNELS

InLoop == Running /\ Dispatching("loop") /\ Top.i \in Slots

HandlerCalled ==
    /\ InLoop
    /\ ForChannel(messageHandlers[Top.i], Top) /\ messageHandlers[Top.i].clientID = Top.clientID
    /\ stack' = [stack EXCEPT ![Len(stack)].pc = "handler", ![Len(stack)].called = @ \cup {Top.i}]
    /\ outcome' = None
    /\ UNCHANGED <<tableVars, publishVars>>

SlotPassedOver ==
    /\ InLoop
    /\ ForChannel(messageHandlers[Top.i], Top) => messageHandlers[Top.i].clientID \notin {Null, Top.clientID}
    /\ stack' = [stack EXCEPT ![Len(stack)].i = @ + 1]
    /\ outcome' = None
    /\ UNCHANGED <<tableVars, publishVars>>

DispatchCrashes ==
    /\ InLoop
    /\ ForChannel(messageHandlers[Top.i], Top) /\ messageHandlers[Top.i].clientID = Null
    /\ Crash
    /\ outcome' = None
    /\ UNCHANGED <<messageHandlers, defaultMessageHandler, removed, nullGiven, publishVars>>

HandlerReturns ==
    /\ Running /\ Dispatching("handler")
    /\ stack' = [stack EXCEPT ![Len(stack)].pc = "loop", ![Len(stack)].i = @ + 1]
    /\ outcome' = None
    /\ UNCHANGED <<tableVars, publishVars>>

(* whether the default handler gets the message *)
ByDefault == Top.called = {} /\ defaultMessageHandler

DefaultCalled ==
    /\ Running /\ Dispatching("loop") /\ Top.i \notin Slots
    /\ ByDefault
    /\ stack' = [stack EXCEPT ![Len(stack)].pc = "default"]
    /\ outcome' = None
    /\ UNCHANGED <<tableVars, publishVars>>

DispatchEnds ==
    /\ Running
    /\ \/ Dispatching("loop") /\ Top.i \notin Slots /\ ~ByDefault
       \/ Dispatching("default")
    /\ outcome' = Ended(Top.called, Top.kept, Top.name, Top.pc = "default", Top.overwritten)
    /\ stack' = Pop
    /\ UNCHANGED <<tableVars, publishVars>>

-----------------------------------------------------------------------------
(* CayenneDataArrayInit in a function of the application.  The array is    *)
(* local to it and CayenneMQTTPublishDataArray does not look at the table, *)
(* so it is enough (bound) to do this before the first subscription.       *)
BeginArray ==
    /\ Running /\ stack = <<>>
    /\ messageHandlers = EmptyTable /\ removed = {} /\ ~nullGiven
    /\ building' = TRUE
    /\ \E c \in Char \cup {Nul} : buffer' = [k \in Offsets |-> c]
    /\ outcome' = None
    /\ UNCHANGED <<tableVars, stack, bufferIndex, values, added, published>>

Collect ==
    /\ building /\ published = None
    /\ \/ \E p \in Pairs : CayenneDataArrayAdd(p) \/ AddFails(p)
       \/ CayenneDataArrayClear
    /\ UNCHANGED <<callVars, building, published>>

(* the string a pointer into the array's buffer reads as *)
StringAt(p) ==
    IF p = Null THEN Null
    ELSE LET end == Min({k \in Offsets : k >= p /\ buffer[k] = Nul})
         IN  [i \in 1..end - p |-> buffer[p + i - 1]]

(* what is written for a unit; a type needs one *)
Unit(type, u) == IF u = Null /\ type # Null THEN UNIT_UNDEFINED ELSE u

(* payloadLength of CayenneBuildDataPayload, the end included (mutant: no  *)
(* room for the units that are not there)                                  *)
CountedGivenUnits(type, pairs) ==
    LET length[i \in 0..Len(pairs)] ==
          IF i = 0 THEN Size(type) ELSE length[i - 1] + Size(pairs[i].unit) + Size(pairs[i].value)
    IN  length[Len(pairs)]

Counted(type, pairs) ==
    LET length[i \in 0..Len(pairs)] ==
          IF i = 0 THEN Size(type)
          ELSE length[i - 1] + Size(Unit(type, pairs[i].unit)) + Size(pairs[i].value)
    IN  length[Len(pairs)]

Text(s) == IF s = Null THEN <<>> ELSE s

Units(type, pairs) ==
    LET text[i \in 0..Len(pairs)] ==
          IF i = 0 THEN Text(type)
          ELSE (IF text[i - 1] = <<>> THEN <<>> ELSE text[i - 1] \o <<",">>)
                 \o Text(Unit(type, pairs[i].unit))
    IN  text[Len(pairs)]

(* the values up to the first that is not there *)
Present(pairs, i) == \A j \in 1..i : pairs[j].value # Null

Values(pairs) ==
    LET text[i \in 0..Len(pairs)] ==
          IF i = 0 THEN <<>>
          ELSE IF Present(pairs, i)
          THEN text[i - 1] \o pairs[i].value \o (IF i < Len(pairs) THEN <<",">> ELSE <<>>)
          ELSE text[i - 1]
    IN  text[Len(pairs)]

Payload(type, pairs) ==
    LET units == Units(type, pairs)
    IN  units \o (IF units # <<>> /\ pairs # <<>> /\ Present(pairs, 1) THEN <<"=">> ELSE <<>>) \o Values(pairs)

(* CayenneMQTTPublishDataArray, which waits for nothing; with CAYENNE_     *)
(* BUFFER_OVERFLOW nothing is published                                    *)
CayenneMQTTPublishDataArray(type) ==
    /\ building /\ published = None
    /\ LET pairs == [i \in DOMAIN values |-> [unit |-> StringAt(values[i].unit),
                                              value |-> StringAt(values[i].value)]]
       IN  /\ Counted(type, pairs) <= Room
           /\ published' = [topic |-> "data", type |-> type, payload |-> Payload(type, pairs),
                            length |-> (Counted(type, pairs) - 1) % SizeBound]
    /\ UNCHANGED <<callVars, arrayVars, building>>

(* the function returns *)
EndArray ==
    /\ building
    /\ building' = FALSE /\ published' = None
    /\ CayenneDataArrayClear
    /\ UNCHANGED callVars

-----------------------------------------------------------------------------
Call ==
    \/ \E r \in Requests, call \in {"subscribe", "unsubscribe"} : Begin(call, r)
    \/ Begin("respond", NoHandler)
    \/ SubscribeSucceeds \/ UnsubscribeSucceeds \/ UnsubscribeCrashes \/ CallReturns

Dispatch ==
    \/ \E name \in Names, payload \in Payloads :
         MQTTMessageArrived(name, payload) \/ MessageDropped(name, payload)
    \/ HandlerCalled \/ SlotPassedOver \/ DispatchCrashes \/ HandlerReturns
    \/ DefaultCalled \/ DispatchEnds

Publish ==
    \/ BeginArray \/ Collect \/ EndArray
    \/ \E type \in Types : CayenneMQTTPublishDataArray(type)

Next == CayenneMQTTClientInit \/ Call \/ Dispatch \/ Publish

Spec == Init /\ [][Next]_vars

-----------------------------------------------------------------------------
(* the filter a slot's subscription was made with *)
Filter(h) == BuildTopic(h.clientID, h.topic, h.channel)

(* MQTT's matching of a topic name with a filter; the last level may be +  *)
MatchesButClient(filter, name) ==
    /\ filter.topic = name.topic
    /\ filter.channel = name.channel \/ (filter.channel = <<Plus>> /\ name.channel # <<>>)

Matches(filter, name) == MatchesButClient(filter, name) /\ filter.clientID = name.clientID

Served(h) == h.fp /\ h.channel # CAYENNE_NO_CHANNEL

(* When the delivery of a message ends, exactly the handlers have been     *)
(* called whose filter matches its topic name in the sense of MQTT, among  *)
(* the slots that no nested call has changed meanwhile: the fields         *)
(* MQTTMessageArrived compares stand for the filters the broker was given. *)
(* If a message that arrived meanwhile has overwritten the client ID in    *)
(* readbuf, the called handlers are still those of the topic and channel.  *)
(* The default handler gets a message when no other has got it, and never  *)
(* one that another has got.                                               *)
DeliveredToSubscribers ==
    outcome # None =>
        /\ \A i \in outcome.kept :
            Served(messageHandlers[i]) =>
                LET filter == Filter(messageHandlers[i])
                IN  /\ ~outcome.overwritten => (i \in outcome.called <=> Matches(filter, outcome.name))
                    /\ i \in outcome.called => MatchesButClient(filter, outcome.name)
        /\ outcome.default <=> outcome.called = {} /\ defaultMessageHandler /\ TopicParses(outcome.name)

(* After CayenneMQTTUnsubscribe has succeeded no slot is left for the same *)
(* topic, however often and in whichever nested calls it was subscribed,   *)
(* until it is subscribed again.                                           *)
UnsubscribedIsSilent == \A i \in Slots : messageHandlers[i].fp => Filter(messageHandlers[i]) \notin removed

(* strcmp reads through a null pointer only if the application has given   *)
(* CayenneMQTTSubscribe a null client ID: never for an empty slot or one   *)
(* that was cleared.  (CayenneMQTTClient.h:217 allows the null client ID.) *)
NamedClientsAreSafe == crashed => nullGiven

(* A subscription that succeeds with a handler has it in the table         *)
(* afterwards, unless every slot was in use; and no other registration is  *)
(* lost by it.                                                             *)
SubscribedIsHeard ==
    [][SubscribeSucceeds /\ Top.request.fp =>
         /\ \/ \E i \in Slots : messageHandlers'[i] = Top.request
            \/ \A i \in Slots : messageHandlers[i].fp
         /\ \A i \in Slots : messageHandlers[i].fp => messageHandlers'[i] = messageHandlers[i]]_vars

-----------------------------------------------------------------------------
(* strings with commas between them *)
Joined(strings) ==
    LET text[i \in 0..Len(strings)] ==
          IF i = 0 THEN <<>>
          ELSE (IF i = 1 THEN <<>> ELSE text[i - 1] \o <<",">>) \o strings[i]
    IN  text[Len(strings)]

(* the payload "type,unit,unit=value,value", "unit=value" or "value" *)
Format(type, pairs) ==
    LET units == [i \in DOMAIN pairs |-> Text(Unit(type, pairs[i].unit))]
        vals  == [i \in DOMAIN pairs |-> pairs[i].value]
    IN  IF type # Null THEN Joined(<<type>> \o units) \o <<"=">> \o Joined(vals)
        ELSE IF pairs[1].unit # Null THEN Joined(units) \o <<"=">> \o Joined(vals)
        ELSE Joined(vals)

(* pairs that have such a payload (an empty type or first unit loses the   *)
(* comma behind it)                                                        *)
Regular(type, pairs) ==
    /\ pairs # <<>> /\ \A i \in DOMAIN pairs : pairs[i].value # Null
    /\ type # <<>>
    /\ \/ type # Null
       \/ \A i \in DOMAIN pairs : pairs[i].unit = Null
       \/ (\A i \in DOMAIN pairs : pairs[i].unit # Null) /\ pairs[1].unit # <<>>

(* The payload of pairs that were added to a data array is the text of     *)
(* those pairs, its end fits into the buffer and the length passed to      *)
(* MQTTPublish, which is counted before the text is put together, is its   *)
(* length.                                                                 *)
PayloadIsCounted ==
    published # None /\ Regular(published.type, added) =>
        /\ published.payload = Format(published.type, added)
        /\ published.length = Len(published.payload)
        /\ Len(published.payload) < Room

=============================================================================
