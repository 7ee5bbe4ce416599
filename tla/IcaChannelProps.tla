--------------------------- MODULE IcaChannelProps ---------------------------
(* The properties of IcaChannel. *)
EXTENDS IcaChannel

\* TypeOK: the values the variables of the channel may take; in particular the
\* unsigned InputBufCurSize never goes below zero.
TypeOK ==
  /\ class \in Classes
  /\ flags \subseteq Flags
  /\ openCount \in Nat
  /\ handle \in [Handles -> {"none", "reopening", "open", "cleaning", "cleaned"}]
  /\ irp \in [Irps -> [active : BOOLEAN, len : ReadLengths \cup {0},
                       fh : Handles \cup {None}]]
  /\ irps \in Seq(Irps)
  /\ cancelable \subseteq Irps
  /\ bufs \in Seq(Packet)
  /\ curSize \in Nat
  /\ op \in {"idle", "read", "served", "deliver"}
  /\ cur \in [pkt : Nat, size : 0 .. MaxUnits, left : 0 .. MaxUnits]
  /\ own \in Irps \cup {None}
  /\ callback \in {"none", "ok", "failed"}
  /\ ioctl \in Handles \cup {None}
  /\ arrived \in 0 .. MaxPackets

Listed == {irps[k] : k \in DOMAIN irps}

\* NoStarvedRead: when nobody owns the channel, no read request waits while
\* input data lies in the channel, whatever completion routines did meanwhile.
NoStarvedRead == op = "idle" => irps = << >> \/ bufs = << >>

\* LoopsNeverNest: the frame of IcaReadChannel that raised the completion count
\* finds no pending request before it serves its own, and still finds data; a
\* read posted by a completion routine under IcaChannelInputInternal finds no
\* queued data.  So no loop that completes requests is ever entered from within
\* another one.
LoopsNeverNest ==
  /\ op = "read" => irps = << >> /\ bufs # << >>
  /\ op = "deliver" /\ callback # "none" => bufs = << >>

\* ReadsAccounted: every read request the client has outstanding is in exactly
\* one place, the pending list or the hands of IcaReadChannel, and it can be
\* cancelled exactly while it is listed: no request is lost or completed twice.
ReadsAccounted ==
  /\ {i \in Irps : irp[i].active} = Listed \cup ({own} \ {None})
  /\ own \notin Listed
  /\ IsInjective(irps)
  /\ cancelable = Listed

\* The units of data that lie in the buffers of a queue.
Units(b) == UNION {{k} \X (1 .. b[k].left) : k \in DOMAIN b}

Buffered == Cardinality(Units(bufs))

\* Throttled: a channel with a throttle never holds more than InputBufMaxSize,
\* and the size it keeps is never below what it holds, so that the unsigned
\* subtraction of _IcaReadChannelComplete does not wrap.
Throttled ==
  /\ Buffered <= curSize
  /\ InputBufMaxSize(class) # 0 => curSize <= InputBufMaxSize(class)

\* MessagesWhole: on a message mode channel neither a queued message nor the
\* one that is being delivered has been received in part.
MessagesWhole ==
  MessageMode(class) =>
    /\ \A k \in DOMAIN bufs : bufs[k].left = bufs[k].size
    /\ cur.left \in {0, cur.size}

\* ClosedChannelIsEmpty: a closing channel holds neither requests nor data, and
\* so _IcaFreeChannel finds both lists empty, as it asserts.
ClosedChannelIsEmpty ==
  "CLOSING" \in flags \/ ~Exists => irps = << >> /\ bufs = << >>

\* DisabledChannelIsEmpty: after IOCTL_ICA_CHANNEL_DISABLE_SESSION_IO returned,
\* no input from before or after it is left for a reader to find.
DisabledChannelIsEmpty ==
  Exists /\ "SESSION_DISABLEIO" \in flags /\ ioctl = None /\ op = "idle" => bufs = << >>

\* Stream: the channel implements ChannelStream; the packet that is being
\* delivered is the youngest of the pipe.
Pipe == bufs \o IF op = "deliver" /\ cur.left # 0 THEN <<cur>> ELSE << >>
Stream == INSTANCE ChannelStream
            WITH pipe <- Pipe, seen <- arrived, whole <- MessageMode(class)
StreamSpec == Stream!StreamSpec

\* LockReleased: if clients do not for ever read again from the completion of a
\* read that failed, the owner of the channel lets go of it.
LockReleased == <>[](callback # "failed") => []<>(op = "idle")

\* CurSizeExact: InputBufCurSize is what icap.h says it is, "Bytes held in
\* input buffers." (It is not: flushing and cleaning up do not reset it.)
CurSizeExact == Exists => curSize = Buffered

\* OpenedIsUsable: once opens and cleanups have come to rest, a channel that
\* somebody has open is not closing.  (It can be: a cleanup that already
\* decided to close may set the flag after a later open looked at it.)
OpenedIsUsable ==
  (\E h \in Handles : handle[h] = "open")
    /\ (\A h \in Handles : handle[h] \notin {"reopening", "cleaning"})
  => "CLOSING" \notin flags
=============================================================================
