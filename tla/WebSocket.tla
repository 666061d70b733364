----------------------------- MODULE WebSocket -----------------------------
(***************************************************************************)
(* One upgraded connection of part_014: ws_handle_upgrade, ws_send_text    *)
(* and ws_read_frame over the gateway's non-blocking socket, with a client *)
(* that frames its messages as spec.md's WebSocketFrame says (masked,      *)
(* shortest length form) and decodes the server's frames the same way.    *)
(* Bytes are naturals below 256; a stream is a sequence of them.  A        *)
(* write may stop after any prefix of its buffer (a short write or         *)
(* EAGAIN), and a read returns what has arrived, up to the count asked.    *)
(* The client's bytes reach the server in segments of any size.            *)
(***************************************************************************)
EXTENDS Naturals, Sequences, Bitwise

CONSTANTS Texts,        \* payloads the server passes to ws_send_text
          ClientFrames, \* [op, payload, key] the client sends
          MaxSends, MaxFrames

VARIABLES isWs,       \* conn->is_websocket
          resp,       \* what the client got of the 101 reply
          toClient,   \* bytes written by the server, in order
          sendOk,     \* the texts whose ws_send_text returned 0
          sendFailed, \* some ws_send_text returned -1 after it started writing
          clientOut,  \* bytes the client has sent that have not yet arrived
          toServer,   \* bytes arrived at the server, not yet read
          clientSent, \* the frames the client sent, in order
          got,        \* the results of ws_read_frame, in order
          readFailed  \* some ws_read_frame returned -1

wsVars == <<isWs, resp, toClient, sendOk, sendFailed, clientOut, toServer,
            clientSent, got, readFailed>>

Bytes == 0..255

\* len = (len << 8) | ext[i], over the extended length bytes
RECURSIVE BigEndian(_)
BigEndian(s) == IF s = <<>> THEN 0
                ELSE BigEndian(SubSeq(s, 1, Len(s) - 1)) * 256 + s[Len(s)]

\* mutant: the key index taken modulo 3
Unmask_Mod3(p, key) == [i \in 1..Len(p) |-> p[i] ^^ key[((i - 1) % 3) + 1]]

\* data[i] ^= mask_key[i % 4]
Unmask(p, key) == [i \in 1..Len(p) |-> p[i] ^^ key[((i - 1) % 4) + 1]]

\* mutant: a 126-byte text given the 7-bit form
EncodeHeader_Inclusive(len) ==
  IF len <= 126 THEN <<129, len>>
  ELSE IF len < 65536 THEN <<129, 126, (len \div 256) % 256, len % 256>>
  ELSE <<129, 127>> \o [i \in 1..8 |-> (len \div 256^(8 - i)) % 256]

\* the frame header ws_send_text builds: FIN and text opcode, then the
\* length in 7 bits, or 126 and 16 bits, or 127 and 64 bits, big-endian
EncodeHeader(len) ==
  IF len < 126 THEN <<129, len>>
  ELSE IF len < 65536 THEN <<129, 126, (len \div 256) % 256, len % 256>>
  ELSE <<129, 127>> \o [i \in 1..8 |-> (len \div 256^(8 - i)) % 256]

\* ws_read_frame on the bytes b that have arrived: the frame it returns, or
\* -1 (Err), and how many bytes its reads consumed.  Each read takes what
\* has arrived up to its count; a short one ends the call with -1.
Err(n) == [ok |-> FALSE, used |-> n]
ReadFrame(b) ==
  LET n      == Len(b)
      op     == b[1] & 15
      masked == (b[2] & 128) # 0
      len7   == b[2] & 127
      ext    == CASE len7 = 126 -> 2 [] len7 = 127 -> 8 [] OTHER -> 0
      len    == IF ext = 0 THEN len7 ELSE BigEndian(SubSeq(b, 3, 2 + ext))
      hdr    == 2 + ext + (IF masked THEN 4 ELSE 0)
      key    == IF masked THEN SubSeq(b, 3 + ext, 6 + ext) ELSE <<0, 0, 0, 0>>
  IN CASE n < 2          -> Err(n)
       [] op = 8         -> Err(2)
       [] n < 2 + ext    -> Err(n)
       [] n < hdr        -> Err(n)
       [] n < hdr + len  -> Err(n)
       [] OTHER          -> [ok   |-> TRUE,
                             res  |-> [op |-> op,
                                       payload |-> Unmask(SubSeq(b, hdr + 1, hdr + len), key)],
                             used |-> hdr + len,
                             hdr  |-> hdr]

(* The client, as the spec frames: FIN, the opcode, the mask bit with the *)
(* shortest length form, the key, the masked payload.                     *)
ClientFrame(f) ==
  LET len == Len(f.payload)
      lenBytes == IF len < 126 THEN <<128 + len>>
                  ELSE <<128 + 126, len \div 256, len % 256>>
  IN <<128 + f.op>> \o lenBytes \o f.key
       \o [i \in 1..len |-> f.payload[i] ^^ f.key[((i - 1) % 4) + 1]]

(* The client's decoding of the server's unmasked frames: the payloads of *)
(* the whole frames at the front of s.                                    *)
RECURSIVE ClientDecode(_)
ClientDecode(s) ==
  IF Len(s) < 2 THEN <<>>
  ELSE LET l7  == s[2] % 128
           ext == IF l7 = 126 THEN 2 ELSE IF l7 = 127 THEN 8 ELSE 0
           len == IF ext = 0 THEN l7
                  ELSE LET e == SubSeq(s, 3, 2 + ext)
                       IN IF Len(e) < ext THEN 0
                          ELSE BigEndian(e)
           end == 2 + ext + len
       IN IF Len(s) < end THEN <<>>
          ELSE <<SubSeq(s, 3 + ext, end)>> \o ClientDecode(SubSeq(s, end + 1, Len(s)))

Init ==
  /\ isWs = FALSE /\ resp = "none"
  /\ toClient = <<>> /\ sendOk = <<>> /\ sendFailed = FALSE
  /\ clientOut = <<>> /\ toServer = <<>> /\ clientSent = <<>>
  /\ got = <<>> /\ readFailed = FALSE

(* ws_handle_upgrade on a request carrying Sec-WebSocket-Key (without it, *)
(* or when base64_encode's malloc fails, it returns -1 and changes        *)
(* nothing).  The 101 reply goes out in one write(); only a whole write   *)
(* marks the connection as a WebSocket.                                   *)
ws_handle_upgrade ==
  /\ ~isWs /\ resp = "none"
  /\ \/ isWs' = TRUE /\ resp' = "whole"
     \/ resp' = "short" /\ UNCHANGED isWs
  /\ UNCHANGED <<toClient, sendOk, sendFailed, clientOut, toServer, clientSent,
                 got, readFailed>>

(* ws_send_text(t): refused (-1, nothing written) before the upgrade;    *)
(* otherwise the header write and the payload loop together put some     *)
(* prefix of the frame on the wire, and 0 is returned only for the whole. *)
ws_send_text(t) ==
  LET frame == EncodeHeader(Len(t)) \o t
  IN /\ isWs /\ Len(sendOk) < MaxSends /\ ~sendFailed
     /\ \E k \in 0..Len(frame) :
          /\ toClient' = toClient \o SubSeq(frame, 1, k)
          /\ IF k = Len(frame) THEN sendOk' = Append(sendOk, t) /\ UNCHANGED sendFailed
                               ELSE sendFailed' = TRUE /\ UNCHANGED sendOk
     /\ UNCHANGED <<isWs, resp, clientOut, toServer, clientSent, got, readFailed>>

(* ws_read_frame, called when bytes have arrived.  malloc(len + 1) may    *)
(* fail after the header has been read.                                   *)
ws_read_frame ==
  /\ isWs /\ toServer # <<>> /\ ~readFailed
  /\ LET r == ReadFrame(toServer)
     IN \/ /\ r.ok
           /\ \/ /\ got' = Append(got, r.res) /\ UNCHANGED readFailed
                 /\ toServer' = SubSeq(toServer, r.used + 1, Len(toServer))
              \/ /\ readFailed' = TRUE /\ UNCHANGED got
                 /\ toServer' = SubSeq(toServer, r.hdr + 1, Len(toServer))
        \/ /\ ~r.ok
           /\ readFailed' = TRUE /\ UNCHANGED got
           /\ toServer' = SubSeq(toServer, r.used + 1, Len(toServer))
  /\ UNCHANGED <<isWs, resp, toClient, sendOk, sendFailed, clientOut, clientSent>>

(* The client sends a frame once it has the whole 101 reply.  After a    *)
(* read has returned -1 the server closes the connection (spec.md: a      *)
(* protocol error closes it), so nothing more is sent or arrives.         *)
ClientSend(f) ==
  /\ resp = "whole" /\ Len(clientSent) < MaxFrames /\ ~readFailed
  /\ clientOut' = clientOut \o ClientFrame(f)
  /\ clientSent' = Append(clientSent, f)
  /\ UNCHANGED <<isWs, resp, toClient, sendOk, sendFailed, toServer, got, readFailed>>

\* the next k bytes the client sent arrive at the server
Arrive ==
  /\ ~readFailed
  /\ \E k \in 1..Len(clientOut) :
       /\ toServer' = toServer \o SubSeq(clientOut, 1, k)
       /\ clientOut' = SubSeq(clientOut, k + 1, Len(clientOut))
  /\ UNCHANGED <<isWs, resp, toClient, sendOk, sendFailed, clientSent, got, readFailed>>

WsNext ==
  \/ ws_handle_upgrade
  \/ \E t \in Texts : ws_send_text(t)
  \/ ws_read_frame
  \/ \E f \in ClientFrames : ClientSend(f)
  \/ Arrive

WsSpec == Init /\ [][WsNext]_wsVars

-----------------------------------------------------------------------------

WsTypeOK ==
  /\ isWs \in BOOLEAN /\ resp \in {"none", "short", "whole"}
  /\ toClient \in Seq(Bytes) /\ toServer \in Seq(Bytes) /\ clientOut \in Seq(Bytes)
  /\ sendOk \in Seq(Texts) /\ clientSent \in Seq(ClientFrames)
  /\ sendFailed \in BOOLEAN /\ readFailed \in BOOLEAN

(* Every text whose ws_send_text returned 0 reaches the client as one    *)
(* frame, in order and with its payload, through the three length forms  *)
(* of the header, as long as no send has failed part-way.                *)
ClientReadsSentTexts == ~sendFailed => ClientDecode(toClient) = sendOk

(* Every frame ws_read_frame returns is the client's next frame, with its *)
(* opcode and its payload unmasked, as long as no read has returned -1.   *)
ServerReadsClientFrames ==
  ~readFailed =>
    /\ Len(got) <= Len(clientSent)
    /\ \A i \in 1..Len(got) :
         got[i] = [op |-> clientSent[i].op, payload |-> clientSent[i].payload]
=============================================================================
