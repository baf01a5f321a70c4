--------------------------------- MODULE Wav ---------------------------------
(***************************************************************************)
(* The header of a wav file, of turing_tts_daemon/wav.c: the fields that   *)
(* depend on the audio.  An unsigned int has Word values.                  *)
(***************************************************************************)
EXTENDS Integers

CONSTANT Word

ASSUME WordAssumption == Word \in Nat /\ Word > 48000

HeaderLen == 44    (* RIFF_HEADER_DEF, FMT_BLOCK_DEF and DATA_BLOCK_DEF      *)

\* The channels do not count in AvgBytesPerSec.
set_wav_header(para) ==
  [riff_size      |-> (HeaderLen + para.data_len - 8) % Word,
   Channels       |-> para.channel,
   SamplesPerSec  |-> para.sample_rate,
   AvgBytesPerSec |-> ((para.sample_rate * para.sample_accuracy) \div 8) % Word,
   BlockAlign     |-> (para.channel * para.sample_accuracy) \div 8,
   BitsPerSample  |-> para.sample_accuracy,
   data_size      |-> para.data_len]

\* Called by no program here.
adjust_wav_header(wav_header, wav_len, data_len) ==
  [wav_header EXCEPT !.riff_size = (wav_len + data_len - 8) % Word,
                     !.data_size = data_len % Word]
=============================================================================
