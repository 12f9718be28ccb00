------------------------------ MODULE HAPFrame ------------------------------
(***************************************************************************)
(* The header every message travels behind (HAPFrame), and what a receiver  *)
(* refuses before it looks any further.                                     *)
(***************************************************************************)
EXTENDS HAPMessages

CONSTANTS Magic,     \* HAP_MAGIC_0, HAP_MAGIC_1
          Version    \* HAP_VERSION

ASSUME FrameAssumption == Magic \in [1 .. 2 -> 0 .. 255] /\ Version \in 0 .. 255
ASSUME PathLengthsFitOneByte == MaxDepth < 16

HeaderSize   == 8 + 2 * MaxDepth
MaxFrameSize == HeaderSize + MaxPayload

\* Header flags.
AckRequested == 1
Upstream     == 2

Padded(path) == path \o [k \in 1 .. MaxDepth - Len(path) |-> 0]

\* Nothing is sent of a frame whose payload is too long.
EncodeFrame(f) ==
  IF Len(f.payload) > MaxPayload THEN <<>>
  ELSE Magic \o <<Version, f.code, f.flags>> \o Little(f.seq, 2)
         \o <<16 * Len(f.dest) + Len(f.src)>>
         \o Padded(f.dest) \o Padded(f.src) \o f.payload

LegalPath(bytes, length) == \A k \in 1 .. length : IsLegalHop(bytes[k])

DecodeFrame(bytes) ==
  LET destLen == bytes[8] \div 16
      srcLen  == bytes[8] % 16
      dest    == SubSeq(bytes, 9, 8 + MaxDepth)
      src     == SubSeq(bytes, 9 + MaxDepth, HeaderSize)
      error   ==
        CASE Len(bytes) < HeaderSize                      -> "TooShort"
          [] Len(bytes) > MaxFrameSize                    -> "TooLong"
          [] SubSeq(bytes, 1, 2) # Magic                  -> "BadMagic"
          [] bytes[3] # Version                           -> "BadVersion"
          [] destLen > MaxDepth \/ srcLen > MaxDepth      -> "BadPathLength"
          [] ~LegalPath(dest, destLen) \/ ~LegalPath(src, srcLen) -> "BadHop"
          [] OTHER                                        -> "None"
  IN  IF error # "None" THEN [error |-> error]
      ELSE [error |-> "None",
            code |-> bytes[4], flags |-> bytes[5], seq |-> Number(SubSeq(bytes, 6, 7)),
            dest |-> SubSeq(dest, 1, destLen), src |-> SubSeq(src, 1, srcLen),
            payload |-> SubSeq(bytes, HeaderSize + 1, Len(bytes))]
=============================================================================
