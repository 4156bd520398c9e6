-------------------------------- MODULE Schema --------------------------------
(***************************************************************************)
(* _encode_json_gzip_base64_checked (output.c): the JSON of a schema is    *)
(* compressed segment by segment into a buffer that grows, and the result  *)
(* is encoded by base64.c.                                                 *)
(*                                                                         *)
(* zlib is external.  A call of deflate consumes input and makes output of *)
(* an unknown size, some of which may stay pending inside the stream; if   *)
(* it leaves room in the output buffer, it has taken all of the input and  *)
(* has nothing pending.                                                    *)
(***************************************************************************)
EXTENDS Json, Base64

CONSTANTS
  MaxSchema,    (* MAX_SIZE_OF_SCHEMA                                      *)
  MinDeflated,  (* the least size of the output buffer, 1024               *)
  Deflates      (* what a call of deflate may add to its pending output    *)

ASSUME SchemaAssumption ==
  /\ MaxSchema \in Nat /\ MinDeflated \in Nat \ {0}
  /\ Deflates \subseteq Nat

VARIABLES
  zphase,   (* "idle", "deflate", "base64", or "none" (no value for this   *)
            (* attribute)                                                  *)
  zseg,     (* the segment deflate is given                                *)
  total,    (* strm.total_out; the output is the first bytes of Data       *)
  pending,  (* output inside the stream (external)                         *)
  size      (* deflated_size                                               *)

zipVars == <<zphase, zseg, total, pending, size>>
schemaVars == <<zipVars, base64Vars>>

SchemaIdle ==
  /\ zphase = "idle" /\ zseg = 0 /\ total = 0 /\ pending = 0 /\ size = 0
  /\ Base64Idle

-----------------------------------------------------------------------------
(* The size of the JSON is checked, then the buffer is guessed.            *)
Deflatable ==
  /\ zphase = "idle" /\ jphase = "json"
  /\ zphase' = IF JsonLength > MaxSchema THEN "none" ELSE "deflate"
  /\ zseg' = 1
  /\ size' = IF JsonLength < MinDeflated THEN MinDeflated ELSE JsonLength
  /\ UNCHANGED <<total, pending, base64Vars>>

(* malloc, deflateInit2 or realloc fails, or the JSON was NULL.            *)
NoValue ==
  /\ \/ zphase = "idle" /\ jphase = "null"
     \/ zphase = "deflate" /\ (total = 0 \/ total >= size)
     \/ zphase = "base64" /\ bphase = "blocks" /\ pos = 0
  /\ zphase' = "none"
  /\ UNCHANGED <<zseg, total, pending, size, base64Vars>>

(* Mutant: the loop over a segment ends after one call of deflate.         *)
DeflateOnce ==
  /\ zphase = "deflate" /\ zseg <= Len(segs)
  /\ size' = IF total >= size THEN 2 * size ELSE size
  /\ \E n \in Deflates :
       LET avail == size' - total
           made  == pending + n
           put   == IF made < avail THEN made ELSE avail
       IN  /\ total + made <= Len(Data)
           /\ total' = total + put
           /\ pending' = made - put
           /\ zseg' = zseg + 1
  /\ UNCHANGED <<zphase, base64Vars>>

(* _encode_gzip: a call of deflate for the current segment.  While it      *)
(* fills the buffer the segment is not done, and the buffer is doubled     *)
(* before the next call.                                                   *)
Deflate ==
  /\ zphase = "deflate" /\ zseg <= Len(segs)
  /\ size' = IF total >= size THEN 2 * size ELSE size
  /\ \E n \in Deflates :
       LET avail == size' - total
           made  == pending + n
           put   == IF made < avail THEN made ELSE avail
       IN  /\ total + made <= Len(Data)
           /\ total' = total + put
           /\ pending' = made - put
           /\ zseg' = IF put = avail THEN zseg ELSE zseg + 1
  /\ UNCHANGED <<zphase, base64Vars>>

DeflateEnds ==
  /\ zphase = "deflate" /\ zseg > Len(segs)
  /\ zphase' = "base64"
  /\ Base64Call(total)
  /\ UNCHANGED <<zseg, total, pending, size>>

SchemaStep ==
  \/ Deflatable \/ NoValue \/ Deflate \/ DeflateEnds
  \/ zphase = "base64" /\ Base64Step /\ UNCHANGED zipVars

-----------------------------------------------------------------------------
(* The compressed stream is within its buffer, and nothing of it is left   *)
(* in zlib when it is encoded.                                             *)
GzipComplete ==
  /\ total <= size
  /\ zphase = "base64" => pending = 0 /\ srclen = total

=============================================================================
