---------------------------- MODULE SoundDevices ----------------------------
(***************************************************************************)
(* The ALSA device table of the audio-out driver                           *)
(* (src/src/drivers/audio_out/dde.c).                                      *)
(*                                                                         *)
(* At start-up dde_linux26_audio_init_devices opens, card after card, the  *)
(* control device and then each playback pcm minor through the ALSA        *)
(* core's open, and records every device that opened in the next slot of  *)
(* alsa_devices[MAX_DEVICES] with the descriptor dev_num + 3 and its       *)
(* /dev/snd name.  The POSIX emulation that alsa-lib calls afterwards      *)
(* (open, access, fcntl, ioctl) finds a device by its name or descriptor   *)
(* in that table.                                                          *)
(*                                                                         *)
(* Which minors the ALSA core can open is the hardware: the variable       *)
(* present, a function from the device nodes to BOOLEAN, fixed at boot.   *)
(* A /dev/snd name is the node it names (the format "controlC%d" /        *)
(* "pcmC%dD%dp" is injective on card and pcm).  The table is the sequence  *)
(* of the used slots; an unused slot has name "" and descriptor 0, which   *)
(* no lookup below asks for.                                               *)
(***************************************************************************)
EXTENDS Integers, Sequences, SequencesExt

CONSTANTS
    SNDRV_CARDS,        \* cards scanned
    SNDRV_MINOR_PCMS,   \* playback pcm minors per card
    MAX_DEVICES         \* slots of alsa_devices

VARIABLE present        \* [node -> BOOLEAN]: the ALSA core opens the node

\* The minor numbers of sound/minors.h within a card.
SNDRV_MINOR_CONTROL == 0
SNDRV_MINOR_PCM_PLAYBACK == 16
PcmMinors == SNDRV_MINOR_PCM_PLAYBACK .. SNDRV_MINOR_PCM_PLAYBACK + SNDRV_MINOR_PCMS - 1

\* A device node: a card's control device or one of its playback pcms.
Node(c, m) == [card |-> c, minor |-> m]
Nodes == {Node(c, m) : c \in 0 .. SNDRV_CARDS - 1,
                       m \in PcmMinors \cup {SNDRV_MINOR_CONTROL}}

ENOENT == -2
EACCES == -13
EBADF == -9

\* One slot being filled (dde.c 341-343 and 319-321): descriptor dev_num + 3,
\* the slot index being dev_num = Len(devs).
Register(devs, n) == Append(devs, [node |-> n, fd |-> Len(devs) + 3])

\* The pcm loop without its dev_num < MAX_DEVICES test (line 326).
RECURSIVE ScanPcmsUnbounded(_, _, _, _)
ScanPcmsUnbounded(hw, c, pcm, s) ==
    IF pcm < SNDRV_MINOR_PCM_PLAYBACK + SNDRV_MINOR_PCMS
    THEN ScanPcmsUnbounded(hw, c, pcm + 1,
                  IF hw[Node(c, pcm)]
                  THEN [devs |-> Register(s.devs, Node(c, pcm)), pcms |-> s.pcms + 1]
                  ELSE s)
    ELSE s

\* dde.c 325-344: the playback pcms of card c from minor pcm on.
RECURSIVE ScanPcms(_, _, _, _)
ScanPcms(hw, c, pcm, s) ==
    IF pcm < SNDRV_MINOR_PCM_PLAYBACK + SNDRV_MINOR_PCMS /\ Len(s.devs) < MAX_DEVICES
    THEN ScanPcms(hw, c, pcm + 1,
                  IF hw[Node(c, pcm)]
                  THEN [devs |-> Register(s.devs, Node(c, pcm)), pcms |-> s.pcms + 1]
                  ELSE s)
    ELSE s

\* dde.c 306-345: the cards from card on; a card whose control device does
\* not open is skipped with its pcms (the continue at line 316).
RECURSIVE ScanCards(_, _, _)
ScanCards(hw, card, s) ==
    IF card < SNDRV_CARDS /\ Len(s.devs) < MAX_DEVICES
    THEN ScanCards(hw, card + 1,
                   IF hw[Node(card, SNDRV_MINOR_CONTROL)]
                   THEN ScanPcms(hw, card, SNDRV_MINOR_PCM_PLAYBACK,
                                 [s EXCEPT !.devs = Register(@, Node(card, SNDRV_MINOR_CONTROL))])
                   ELSE s)
    ELSE s

\* dde_linux26_audio_init_devices (dde.c 300-348): the table it fills and
\* the number of pcms it returns.
InitDevices(hw) == ScanCards(hw, 0, [devs |-> <<>>, pcms |-> 0])

\* get_dev_by_name (dde.c 51-60): the first slot with that name, or 0.
GetDevByName(devs, n) == SelectInSeq(devs, LAMBDA d : d.node = n)

\* get_dev_by_fd (dde.c 63-72): the first slot with that descriptor, or 0.
GetDevByFd(devs, fd) == SelectInSeq(devs, LAMBDA d : d.fd = fd)

\* open (dde.c 143-160): the device's descriptor, or -errno.
PosixOpen(devs, n, acc) ==
    LET i == GetDevByName(devs, n)
    IN CASE i = 0 -> ENOENT
         [] acc # "O_RDWR" -> EACCES
         [] OTHER -> devs[i].fd

\* access (dde.c 221-229) and ioctl's and fcntl's lookup (lines 164-168 and
\* 249-253): 0 when the device is known, -errno otherwise; ioctl then
\* passes the request to the device's unlocked_ioctl.
PosixAccess(devs, n) == IF GetDevByName(devs, n) = 0 THEN ENOENT ELSE 0
FdKnown(devs, fd) == IF GetDevByFd(devs, fd) = 0 THEN EBADF ELSE 0

\* The hardware: any set of device nodes the ALSA core can open.
DevInit == present \in [Nodes -> BOOLEAN]

\* dde_linux26_audio_init (audio.c 74-98) runs the scan and then
\* snd_pcm_open("hw:0,0"), which alsa-lib turns into open() of card 0's
\* control device and of its first playback pcm; the driver becomes active
\* (main.cc 234-240) when both are in the table and the ALSA core accepts
\* the hardware parameters (audio.c 100-156), which the model assumes.
AudioInitOk(p) ==
    LET devs == InitDevices(p).devs
    IN /\ PosixOpen(devs, Node(0, SNDRV_MINOR_CONTROL), "O_RDWR") >= 0
       /\ PosixOpen(devs, Node(0, SNDRV_MINOR_PCM_PLAYBACK), "O_RDWR") >= 0

-----------------------------------------------------------------------------
(* Reference: what the scan is meant to find, stated without its loops.    *)

\* The nodes of card c that open, control device first, pcms in order.
CardDevices(hw, c) ==
    IF hw[Node(c, SNDRV_MINOR_CONTROL)]
    THEN <<Node(c, SNDRV_MINOR_CONTROL)>> \o
         SelectSeq([p \in 1 .. SNDRV_MINOR_PCMS |->
                       Node(c, SNDRV_MINOR_PCM_PLAYBACK + p - 1)],
                   LAMBDA n : hw[n])
    ELSE <<>>

\* All nodes that open, card by card.
AllDevices(hw) ==
    FlattenSeq([c \in 1 .. SNDRV_CARDS |-> CardDevices(hw, c - 1)])

\* The first MAX_DEVICES of them fit the table.
Expected(hw) ==
    LET all == AllDevices(hw)
    IN SubSeq(all, 1, IF Len(all) < MAX_DEVICES THEN Len(all) ELSE MAX_DEVICES)

\* On the hardware present, the device scan at driver start-up registers
\* exactly the first
\* MAX_DEVICES device nodes the ALSA core opens, card by card and a card's
\* pcms only after its control device, without writing past the table; it
\* returns the number of pcms among them; and alsa-lib's open() of any
\* registered node yields a descriptor above stderr under which ioctl and
\* fcntl find that same node, while every other node is ENOENT.
ScanFindsDevices ==
    LET r == InitDevices(present)
        exp == Expected(present)
    IN /\ [i \in DOMAIN r.devs |-> r.devs[i].node] = exp
       /\ r.pcms = Len(SelectSeq(exp, LAMBDA n : n.minor # SNDRV_MINOR_CONTROL))
       /\ \A n \in Nodes :
             LET fd == PosixOpen(r.devs, n, "O_RDWR")
             IN IF \E i \in DOMAIN exp : exp[i] = n
                THEN /\ fd >= 3
                     /\ FdKnown(r.devs, fd) = 0
                     /\ r.devs[GetDevByFd(r.devs, fd)].node = n
                ELSE fd = ENOENT /\ PosixAccess(r.devs, n) = ENOENT

====
