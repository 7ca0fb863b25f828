------------------------------ MODULE MCSession ------------------------------
(***************************************************************************)
(* An instance of Session for TLC.                                         *)
(***************************************************************************)
EXTENDS Session

F32(channels, min, max) == [format |-> "f32", channels |-> channels, min |-> min, max |-> max]
I16(channels, min, max) == [format |-> "i16", channels |-> channels, min |-> min, max |-> max]
Default(format, channels, rate) == {[format |-> format, channels |-> channels, rate |-> rate]}

\* A cable with the preferred format; a microphone with one channel; speakers
\* whose only f32 format is their default; and a device of the integer kind.
Cable == [matches |-> {"ca"}, ranges |-> {I16(2, 8000, 96000), F32(2, 44100, 48000)},
          default |-> Default("f32", 2, 44100)]
Mic == [matches |-> {"mi", "usb"}, ranges |-> {F32(1, 48000, 48000)},
        default |-> Default("f32", 1, 48000)]
Speakers == [matches |-> {"sp", "usb"}, ranges |-> {I16(2, 44100, 48000)},
             default |-> Default("f32", 1, 48000)]
Phone == [matches |-> {"ph"}, ranges |-> {I16(2, 48000, 48000)},
          default |-> Default("i16", 2, 48000)]

TheHost == [inputs |-> {Cable, Mic, Phone}, outputs |-> {Cable, Speakers, Phone},
            defaultInput |-> {Mic}, defaultOutput |-> {Speakers}]
Cli(capture, playback, packetMs) ==
  [capture |-> capture, playback |-> playback, rate |-> 48000, channels |-> 2,
   packetMs |-> packetMs]
\* The defaults; one stereo cable; packets too long for UDP; combinations that
\* have no common format; and selectors that are ambiguous or unknown.
TheRigs ==
  {[host |-> TheHost, cli |-> c] :
     c \in {Cli(NoNeedle, NoNeedle, 10), Cli("ca", "ca", 10), Cli("ca", "ca", 200),
            Cli("ca", NoNeedle, 10), Cli("ph", "ca", 10), Cli("ca", "ph", 10),
            Cli("usb", "usb", 10), Cli("xx", NoNeedle, 10)}}

Header(channels, rate, frames, length) ==
  [magic |-> Magic, version |-> 1, format |-> 1, channels |-> channels, rate |-> rate,
   sequence |-> 2, frames |-> frames, length |-> length]
TheHeaders ==
  UNION {{Header(c, r, f, l), [Header(c, r, f, l) EXCEPT !.magic = "KONY"],
          [Header(c, r, f, l) EXCEPT !.version = 2],
          [Header(c, r, f, l) EXCEPT !.format = 2]} :
           c \in {0, 1, 2, 255}, r \in {0, 44100, 48000}, f \in {0, 1, 2, 65535},
           l \in {0, 27, 28, 32, 36, 44, 1048, 2068}}
\* Of the format of a session, with no rate, and not audio at all.
TheStrays ==
  {Header(2, 48000, 480, 3868), Header(2, 0, 480, 3868),
   [Header(1, 48000, 480, 1947) EXCEPT !.magic = "text"]}
=============================================================================
