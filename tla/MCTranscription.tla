---------------------------- MODULE MCTranscription ----------------------------
(* The transcription path, for TLC: the plugin sends two chunks while another  *)
(* client sends one.                                                          *)
EXTENDS Transcription

MCChunk == {<<"plugin", 1>>, <<"plugin", 2>>, <<"replay", 1>>}
=============================================================================
