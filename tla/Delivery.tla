------------------------------ MODULE Delivery -----------------------------
(***************************************************************************)
(* From the encoder to the screen: frames are encoded, published by a      *)
(* satellite, received by a TV and decoded by its decoder, which was       *)
(* subscribed before with the command line tools.                          *)
(*                                                                         *)
(* The satellite and the decoder are what they promise to be (Broadcast,   *)
(* Subscriptions), a call of the decoder is the exchange of HostLink       *)
(* reduced to its request and its answer (Exchange), the TV is TV.tla.     *)
(* The decoder may lose power, except while it stores a subscription,      *)
(* where Subscriptions promises nothing (Decoder.tla has what is lost      *)
(* then): a call in progress never ends, fails, or returns whatever the    *)
(* boot messages completed.                                                *)
(***************************************************************************)
EXTENDS Wire, TV, FiniteSets

CONSTANTS
  Ports,          \* the channels that the satellite serves
  Emergency,      \* channel 0
  Frames,         \* what may be encoded: [channel, timestamp, frame]
  Requests,       \* the subscriptions that may be generated
  Capacity,       \* slots of the decoder
  Tv,             \* the connection of the TV
  Garbage,        \* what a call cut by a power loss may return
  MaxFrames       \* bound: frames published while the TV listens

ASSUME DeliveryAssumption ==
  /\ Frames \subseteq [channel : 0..(Word32 - 1), timestamp : 0..(Word32 * Word32 - 1),
                       frame : {f \in Bytes : Len(f) <= 64}]
  /\ Requests \subseteq [device_id : 0..(Word32 - 1), channel : 0..(Word32 - 1),
                         start : 0..(Word32 * Word32 - 1), end : 0..(Word32 * Word32 - 1)]
  /\ Capacity \in 0..(Word32 - 1)

VARIABLES
  port,                    \* the channel of the TV's satellite port
  tuned, pending, sent,    \* the satellite, as in Broadcast
  subs, confirming, answer,    \* the decoder, as in Subscriptions
  call,      \* the call of the decode thread: "none", "asked", "answered", "cut"
  listed,    \* what tv.list has printed since the last subscription, if it was called
  wanted,    \* history: the subscriptions that the decoder accepted, as requested
  since,     \* history: the frames encoded since the TV listens
  garbled    \* history: a cut call has returned something

satVars == <<tuned, pending, sent>>
decoderVars == <<subs, confirming, answer>>
vars == <<tvVars, port, satVars, decoderVars, call, listed, wanted, since, garbled>>

GoesTo(line, c) == line.channel \in {c, Emergency}

Line(f) == [channel |-> f.channel, encoded |-> encode(f.channel, f.frame, f.timestamp)]
Lines == {Line(f) : f \in Frames}
Updates == {UpdateOf(gen_subscription(r)) : r \in Requests}

Sat == INSTANCE Broadcast WITH Channels <- Ports, TVs <- {Tv}, Messages <- Lines
Decoder == INSTANCE Subscriptions WITH
  pending <- confirming, Channel <- Ports \cup {Emergency}, EMERGENCY_CHANNEL <- Emergency

DeliveryInit ==
  /\ Init /\ Sat!Init /\ Decoder!Init
  /\ port \in Ports
  /\ call = "none" /\ listed = {}
  /\ wanted = [c \in {} |-> c] /\ since = <<>> /\ garbled = FALSE

-----------------------------------------------------------------------------
(* tv.subscribe and tv.list, used before the TV is started. *)

ToolsRun == main = "decode" /\ UNCHANGED <<tvVars, port, satVars, call, since, garbled>>

Subscribe(r) ==
  /\ ToolsRun
  /\ LET u == UpdateOf(gen_subscription(r)) IN
       \/ /\ Decoder!Accept(u)
          /\ wanted' = [c \in DOMAIN wanted \cup {r.channel} |->
                          IF c = r.channel THEN [start |-> r.start, end |-> r.end] ELSE wanted[c]]
          /\ listed' = {}
       \/ Decoder!Refuse(u) /\ UNCHANGED <<wanted, listed>>

Subscribed == ToolsRun /\ Decoder!Confirm /\ UNCHANGED <<wanted, listed>>

\* The slots are reported in some order.
Orders(S) == {order \in [1..Cardinality(S) -> S] : \A c \in S : \E k \in 1..Cardinality(S) : order[k] = c}
List ==
  /\ ToolsRun /\ Decoder!List
  /\ \E order \in Orders(DOMAIN subs) :
       LET body == ListResponse([k \in DOMAIN order |->
                     [channel |-> order[k], start |-> subs[order[k]].start, end |-> subs[order[k]].end]])
       IN Unpackable(body) /\ listed' = {UnpackList(body)}
  /\ UNCHANGED wanted

-----------------------------------------------------------------------------
(* The satellite. *)

Publish(f) ==
  /\ Len(since) < MaxFrames \/ tuned[Tv] = {}
  /\ Sat!Publish(Line(f))
  /\ since' = IF \E c \in tuned[Tv] : f.channel \in {c, Emergency} THEN Append(since, f.frame) ELSE since
  /\ UNCHANGED <<tvVars, port, decoderVars, call, listed, wanted, garbled>>

Listen == Connect /\ Sat!Listen(Tv, port) /\ UNCHANGED <<port, decoderVars, call, listed, wanted, since, garbled>>

Send ==
  /\ Sat!Send(Tv)
  /\ socket' = Append(socket, Head(pending[Tv]).encoded)
  /\ UNCHANGED <<main, rx, dec, to_decode, crash, hand, shown, late>>
  /\ UNCHANGED <<port, decoderVars, call, listed, wanted, since, garbled>>

Close == Sat!Leave({Tv}) /\ UNCHANGED <<tvVars, port, decoderVars, call, listed, wanted, since, garbled>>

-----------------------------------------------------------------------------
(* The TV. *)

Alone == UNCHANGED <<port, satVars, decoderVars, call, listed, wanted, since, garbled>>

run == ((StartDecode /\ ~confirming) \/ StartDownlink \/ Poll \/ SetCrash) /\ Alone
CtrlC == Interrupt /\ Alone

\* A connection is lost when the satellite has closed it.
downlink ==
  \/ Listen
  \/ (CheckReceive \/ Receive) /\ Alone
  \/ DownlinkFails /\ (rx = "recv" => tuned[Tv] = {}) /\ Alone

Ask ==
  /\ Look /\ call' = "asked"
  /\ UNCHANGED <<port, satVars, decoderVars, listed, wanted, since, garbled>>

Answered ==
  /\ call = "answered" /\ call' = "none"
  /\ IF answer = Decoder!Failure THEN DecodeFails ELSE Show(FrameData(hand[1]))
  /\ UNCHANGED <<port, satVars, decoderVars, listed, wanted, since, garbled>>

decode == ((CheckDecode \/ LookAgain) /\ Alone) \/ Ask \/ Answered

-----------------------------------------------------------------------------
(* The decoder. *)

Serve ==
  /\ call = "asked" /\ call' = "answered"
  /\ Decoder!Decode(FrameChannel(hand[1]))
  /\ UNCHANGED <<tvVars, port, satVars, listed, wanted, since, garbled>>

\* Until a subscription is confirmed the page may be erased or half rewritten:
\* that power holds then is an assumption.
PowerLoss ==
  /\ ~confirming /\ Decoder!Restart
  /\ call' = IF call = "none" THEN "none" ELSE "cut"
  /\ UNCHANGED <<tvVars, port, satVars, listed, wanted, since, garbled>>

\* A cut call need not end.
CutCall ==
  /\ call = "cut" /\ call' = "none"
  /\ \/ DecodeFails /\ UNCHANGED garbled
     \/ Show(Garbage) /\ garbled' = TRUE
  /\ UNCHANGED <<port, satVars, decoderVars, listed, wanted, since>>

Next ==
  \/ \E r \in Requests : Subscribe(r)
  \/ Subscribed \/ List
  \/ \E f \in Frames : Publish(f)
  \/ Send \/ Close
  \/ run \/ CtrlC \/ downlink \/ decode
  \/ Serve \/ PowerLoss \/ CutCall

\* Threads are scheduled, the satellite sends, a decoder with power answers.
Fairness == WF_vars(run) /\ WF_vars(downlink) /\ WF_vars(decode) /\ WF_vars(Send) /\ WF_vars(Serve)
Spec == DeliveryInit /\ [][Next]_vars /\ Fairness

-----------------------------------------------------------------------------
(* Properties. *)

\* The threads, the call and the frame in hand agree with each other, and no
\* packet is so short that frame_size wraps.
TypeOK ==
  /\ main \in {"decode", "downlink", "poll", "finally", "ended"}
  /\ rx \in {"none", "connect", "check", "recv", "ended"}
  /\ dec \in {"none", "check", "look", "call", "ended"}
  /\ crash \in BOOLEAN /\ garbled \in BOOLEAN /\ port \in Ports
  /\ call \in {"none", "asked", "answered", "cut"}
  /\ call # "none" <=> dec = "call"
  /\ Len(hand) <= 1 /\ (dec = "call" => hand # <<>>)
  /\ hand # <<>> => dec \in {"call", "ended"}
  /\ \A q \in {socket, to_decode, hand} : q \in Seq({p \in Bytes : Len(p) >= 12})
  /\ \A q \in {shown, since} : q \in Seq(Bytes \cup {Garbage})

\* The frames of packets, and the frames on their way to the screen.
FramesOf(packets) == [k \in DOMAIN packets |-> FrameData(packets[k])]
InFlight ==
  FramesOf(hand) \o FramesOf(to_decode) \o FramesOf(socket)
    \o [k \in DOMAIN pending[Tv] |-> FrameData(pending[Tv][k].encoded)]

\* What a TV shows is what was encoded for its channel since it listens: each
\* frame once, whole, in order, and none is lost on the way as long as it is
\* connected, whatever the timestamps say and whichever thread lags behind.
Delivered ==
  ~garbled =>
    /\ SubSeq(since, 1, Len(shown)) = shown
    /\ tuned[Tv] # {} => shown \o InFlight = since

\* The channel of the port decides, and nothing else does: a frame is refused
\* only if the decoder was not subscribed to it, and otherwise decoded only if
\* it was, or the frame is one for everybody.  What satellite, encoder, tools and
\* decoder call a channel agrees; the window that was asked for, the timestamp
\* of the frame and a power loss between updates make no difference.
ChannelDecides ==
  call = "answered" =>
    IF answer = Decoder!Failure THEN port \notin DOMAIN wanted
    ELSE port \in DOMAIN wanted \/ FrameChannel(hand[1]) = Emergency

\* tv.list prints each subscription that the decoder accepted, once, as it was
\* given to gen_subscription.
ListTells ==
  \A list \in listed :
    /\ Len(list) = Cardinality(DOMAIN wanted)
    /\ {list[k] : k \in 1..Len(list)} =
         {[channel |-> c, start |-> wanted[c].start, end |-> wanted[c].end] : c \in DOMAIN wanted}

\* After the user or a failed thread has set the event, at most one more frame
\* goes to the decoder.
AtMostOneLate == late <= 1

\* Once the event is set the process ends, unless the decode thread waits for
\* the answer to a call that a power loss has cut: the serial port has no timeout.
Ends == crash ~> (Ended \/ call = "cut")

\* What is sent to a TV that is not stopped is shown.
ShowsAll ==
  \A n \in 1..MaxFrames : Len(since) >= n ~> (Len(shown) >= n \/ crash \/ call = "cut")
=============================================================================
