------------------------------ MODULE MCAudio ------------------------------
(* The audio-out driver for TLC.  main() runs dde_linux26_audio_init,    *)
(* whose device scan fills the ALSA table (SoundDevices) on any hardware, *)
(* and sets audio_out_active when alsa-lib could open card 0's first      *)
(* playback pcm through that table; then it serves sessions (Audio),      *)
(* refusing every one when the start-up failed.  The hardware and the     *)
(* table stay as boot left them.                                          *)
EXTENDS Audio, SoundDevices

CONSTANTS L, R

DriverInit == DevInit /\ Init /\ audio_out_active = AudioInitOk(present)

DriverSpec == DriverInit /\ [][Next /\ UNCHANGED present]_<<vars, present>>

====
