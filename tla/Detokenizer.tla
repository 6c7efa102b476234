---------------------------- MODULE Detokenizer ----------------------------
(***************************************************************************)
(* Incremental detokenization (miniserve/server/tokenizer.py).  A token is *)
(* a run of bytes of two-byte characters, BytesOf[token]: it may begin     *)
(* with the second byte of one (cont), has some whole ones (chars) and may *)
(* end with the first byte of another (lead).  Text is a sequence of       *)
(* characters, "pair" for one put together from two tokens.                *)
(***************************************************************************)
EXTENDS Integers, Sequences, SequencesExt

CONSTANT BytesOf        \* [cont, chars, lead] of each token

REPLACEMENT_CHAR == "FFFD"

\* The text of token i in its context.
TextAt(ids, i) ==
  LET bytes == BytesOf[ids[i]]
      whole == i > 1 /\ BytesOf[ids[i - 1]].lead
      ends  == i = Len(ids) \/ ~ BytesOf[ids[i + 1]].cont
  IN  (IF ~ bytes.cont THEN <<>> ELSE IF whole THEN <<"pair">> ELSE <<REPLACEMENT_CHAR>>)
      \o bytes.chars
      \o (IF bytes.lead /\ ends THEN <<REPLACEMENT_CHAR>> ELSE <<>>)

\* tokenizer.decode: byte-level BPE, with U+FFFD for whatever is not a whole character.
Decode(ids) == FlattenSeq([i \in DOMAIN ids |-> TextAt(ids, i)])

\* failed is history: an item of the stream could not be decoded.
NewDecoder == [ids |-> <<>>, prefix |-> 0, read |-> 0, failed |-> FALSE]

\* Faulty variant: text is emitted as it comes.
HoldBackNothing(new, finished) == FALSE

\* Text that ends in the middle of a character waits, unless nothing follows.
HoldBack(new, finished) == ~ finished /\ (new = <<>> \/ Last(new) = REPLACEMENT_CHAR)

\* IncrementalDetokenizer.step: the decoder after it, and the text it emits.
Step(decoder, new_ids, finished) ==
  LET ids    == decoder.ids \o new_ids
      before == Decode(SubSeq(ids, decoder.prefix + 1, decoder.read))
      text   == Decode(SubSeq(ids, decoder.prefix + 1, Len(ids)))
      new    == SubSeq(text, Len(before) + 1, Len(text))
      moved  == [decoder EXCEPT !.ids = ids, !.prefix = decoder.read, !.read = Len(ids)]
  IN  IF decoder.read = Len(ids) \/ HoldBack(new, finished)
      THEN [decoder |-> [decoder EXCEPT !.ids = ids], text |-> <<>>]
      ELSE [decoder |-> moved, text |-> new]
=============================================================================
