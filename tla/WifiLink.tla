------------------------------ MODULE WifiLink ------------------------------
(***************************************************************************)
(* agent/atf_agent/platform: the band a heartbeat tells.  Linux and        *)
(* Windows ask the system on every beat; macOS is so slow to answer that a *)
(* thread, started by the first beat, keeps the last answer in a cache.    *)
(* Channels become frequencies, and frequencies bands.                     *)
(***************************************************************************)
EXTENDS Integers

CONSTANTS
    Channels,   \* pairs of a band and a channel the station may be on
    MaxRoams    \* bound: times it moves, connects or disconnects

\* The channels as 802.11 numbers them.
ASSUME ChannelsAssumption ==
    Channels \subseteq ({"2.4G"} \X (1..14)) \cup ({"5G"} \X (32..177)) \cup ({"6G"} \X (1..233))

VARIABLES
    os,       \* the platform
    on,       \* where the station is: a pair of Channels, or <<>>
    poller,   \* _link_poll_loop: where it is, and the frequency it has just read
    cache,    \* _link_cache: a frequency, or NoLink
    told,     \* band of the last heartbeat, and where the station was since it was read
    roams,
    during, since   \* history: where it was since the reads of poller and cache
linkVars == <<os, on, poller, cache, told, roams, during, since>>

NoLink == 0

LinkInit ==
    /\ os \in {"linux", "windows", "macos"}
    /\ on = <<>> /\ poller = [pc |-> "off", read |-> NoLink]
    /\ cache = NoLink /\ roams = 0
    /\ told = [band |-> "unknown", of |-> {}] /\ during = {<<>>} /\ since = {<<>>}

(* What the radio is tuned to, and Linux's iw tells.                       *)
LinuxLink(band, ch) ==
    CASE band = "6G" -> 5950 + ch * 5
      [] band = "5G" -> 5000 + ch * 5
      [] OTHER -> IF ch = 14 THEN 2484 ELSE 2407 + ch * 5

\* A channel without its band: 6 GHz channels cannot be told from the others.
Guess(ch) == IF ch <= 14 THEN "2.4G" ELSE "5G"

(* netsh and system_profiler tell the channel, most often next to the band. *)
WindowsLink(at) == {LinuxLink(at[1], at[2]), LinuxLink(Guess(at[2]), at[2])}
MacLink(at) ==
    {IF b = "2.4G" THEN 2407 + at[2] * 5 ELSE LinuxLink(b, at[2]) : b \in {at[1], Guess(at[2])}}

(* One look at the link, which may also fail or not be understood.         *)
Look ==
    {NoLink} \cup IF on = <<>> THEN {}
                  ELSE CASE os = "linux" -> {LinuxLink(on[1], on[2])}
                         [] os = "windows" -> WindowsLink(on)
                         [] OTHER -> MacLink(on)

(* get_band of the base class, whose limit of 6 GHz macOS overrides.       *)
BandBelow(limit, freq) ==
    IF freq = NoLink THEN "unknown" ELSE IF freq < 3000 THEN "2.4G"
    ELSE IF freq < limit THEN "5G" ELSE "6G"
BaseBand(freq) == BandBelow(6000, freq)
MacBand(freq) == BandBelow(5925, freq)
GetBand(freq) == IF os = "macos" THEN MacBand(freq) ELSE BaseBand(freq)

Roam(to) ==
    /\ roams < MaxRoams /\ to # on
    /\ roams' = roams + 1 /\ on' = to
    /\ during' = during \cup {to} /\ since' = since \cup {to}
    /\ UNCHANGED <<os, poller, cache, told>>

(* _run_heartbeat_loop as far as the band goes.  On macOS the first beat   *)
(* starts the poller and is told what the empty cache says.                *)
Heartbeat ==
    /\ IF os = "macos"
       THEN told' = [band |-> GetBand(cache), of |-> since]
       ELSE \E freq \in Look : told' = [band |-> GetBand(freq), of |-> {on}]
    /\ poller' = IF os = "macos" /\ poller.pc = "off" THEN [poller EXCEPT !.pc = "rest"] ELSE poller
    /\ UNCHANGED <<os, on, cache, roams, during, since>>

(* _link_poll_loop: seconds pass between the look and the cache.           *)
PollRead ==
    /\ poller.pc = "rest"
    /\ poller' \in [pc : {"store"}, read : Look] /\ during' = {on}
    /\ UNCHANGED <<os, on, cache, told, roams, since>>

PollStore ==
    /\ poller.pc = "store" /\ poller' = [poller EXCEPT !.pc = "rest"]
    /\ cache' = poller.read /\ since' = during
    /\ UNCHANGED <<os, on, told, roams, during>>

LinkNext ==
    \/ \E to \in Channels \cup {<<>>} : Roam(to)
    \/ Heartbeat \/ PollRead \/ PollStore

(* The band a heartbeat tells is one the station was on since the system   *)
(* was asked, on macOS up to one poll ago.  Told wrong are only 6 GHz      *)
(* channels: those a system names without the band, and off macOS those    *)
(* below 6000 MHz (get_band, get_link_info).                               *)
BandWasTrue ==
    told.band # "unknown" =>
        \E l \in told.of \ {<<>>} :
            \/ told.band = l[1]
            \/ l[1] = "6G" /\ os # "linux" /\ told.band = Guess(l[2])
            \/ l[1] = "6G" /\ os # "macos" /\ l[2] < 10 /\ told.band = "5G"

=============================================================================
