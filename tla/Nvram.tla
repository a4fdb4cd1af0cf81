-------------------------------- MODULE Nvram --------------------------------
(***************************************************************************)
(* The NVRAM of packages/nvram.c: its partitions, the search for the       *)
(* system partition at start, the node through which clients write it, and *)
(* the way of the configuration variables to the device and back over a    *)
(* restart.                                                                 *)
(*                                                                         *)
(* Everything counts 16 bytes, the size of a header and the unit of its    *)
(* length field.  A unit is what it says when read as a header: signature, *)
(* length, whether the checksum is right; and val, the settings it holds   *)
(* when it is the start of a system partition's data.  The words           *)
(* nvram-load-configs and nvram-store-configs are external: they move the   *)
(* settings as a whole.                                                     *)
(***************************************************************************)
EXTENDS Integers, FiniteSets, FiniteSetsExt

CONSTANTS
    NvUnits,      \* arch_nvram_size()
    NvSystem,     \* DEF_SYSTEM_SIZE
    Settings,     \* values of the configuration variables
    OneSystem     \* whether the device holds one system partition at most

VARIABLES
    device,       \* what arch_nvram_get reads
    nvdata,       \* nvram.data
    nvpart,       \* the partition nvconf_init is at; NvUnits: next_nvpart gave 0
    config,       \* nvram.config, or NoPart
    once,         \* settings were loaded or defaulted
    settings,     \* the configuration variables
    phase,        \* "scan" in nvconf_init, "up" after it
    saved         \* settings last stored for the next start, None, or Foreign:
                  \* a client has written to the NVRAM since the start

nvVars == <<device, nvdata, nvpart, config, once, settings, phase, saved>>

None == "none"
NoPart == -1
Foreign == "foreign"
Default == "default"
NoVal == "no value"
Addrs == 0..(NvUnits - 1)

Unit(sig, len, ok, val) == [sig |-> sig, len |-> len, ok |-> ok, val |-> val]

Contents ==
    {Unit(sig, len, TRUE, val) :
        sig \in {"system", "free", "other"}, len \in 0..(NvUnits + 1),
        val \in {Default}} \cup {Unit("other", 1, FALSE, Default)}

Zero == Unit("other", 0, TRUE, NoVal)

(* next_nvpart: the next partition, NvUnits after the last one, or NoPart. *)
next_nvpart_NoEnd(data, p) ==
    IF data[p].len = 0 THEN NoPart ELSE Min({p + data[p].len, NvUnits})

next_nvpart(data, p) ==
    IF data[p].len = 0 \/ p + data[p].len > NvUnits THEN NoPart
    ELSE p + data[p].len

create_free_part(data, at, size) ==
    [a \in Addrs |-> IF a = at THEN Unit("free", size, TRUE, NoVal)
                     ELSE IF a \in at..(at + size - 1) THEN Zero ELSE data[a]]

(* The first free partition, of which `want` units at most are taken. *)
RECURSIVE create_nv_part(_, _, _, _)
create_nv_part(data, p, sig, want) ==
    IF p = NoPart \/ p = NvUnits THEN data
    ELSE IF data[p].sig # "free"
         THEN create_nv_part(data, next_nvpart(data, p), sig, want)
         ELSE LET fs == data[p].len
                  size == Min({fs, want})
                  made == [data EXCEPT ![p] = Unit(sig, size, TRUE, @.val)]
              IN IF fs > size THEN create_free_part(made, p + size, fs - size)
                 ELSE made


zap_nvram ==
    create_nv_part(create_free_part(nvdata, 0, NvUnits), 0, "system", NvSystem)

-----------------------------------------------------------------------------
NvInit ==
    /\ device \in [Addrs -> Contents]
    /\ OneSystem => Cardinality({a \in Addrs : device[a].sig = "system"}) <= 1
    /\ nvdata = device /\ nvpart = 0 /\ config = NoPart /\ once = FALSE
    /\ settings = Default /\ phase = "scan" /\ saved = None

(* The settings stored in a partition; a header without data has no room.  *)
Loaded(p) ==
    IF nvdata[p].len > 1 /\ p + 1 \in Addrs /\ nvdata[p + 1].val # NoVal
    THEN nvdata[p + 1].val ELSE settings

(* One round of the inner loop of nvconf_init: a partition is looked at,   *)
(* then next_nvpart is called.                                              *)
Visit ==
    /\ phase = "scan" /\ nvpart \in Addrs /\ nvdata[nvpart].ok
    /\ LET system == nvdata[nvpart].sig = "system"
       IN /\ config' = IF system THEN nvpart ELSE config
          /\ once' = (once \/ system)
          /\ settings' = IF system /\ ~once THEN Loaded(nvpart) ELSE settings
    /\ nvpart' = next_nvpart(nvdata, nvpart)
    /\ UNCHANGED <<device, nvdata, phase, saved>>

(* A wrong checksum, a wrong length or no system partition: start again on *)
(* a fresh NVRAM.                                                            *)
Zap ==
    /\ phase = "scan"
    /\ \/ nvpart \in Addrs /\ ~nvdata[nvpart].ok
       \/ nvpart = NoPart
       \/ nvpart = NvUnits /\ config = NoPart
    /\ nvdata' = zap_nvram
    /\ nvpart' = 0
    /\ settings' = IF once THEN settings ELSE Default
    /\ once' = TRUE
    /\ UNCHANGED <<device, config, phase, saved>>

Ready ==
    /\ phase = "scan" /\ nvpart = NvUnits /\ config # NoPart
    /\ phase' = "up"
    /\ saved' = IF saved = Foreign THEN None ELSE saved
    /\ UNCHANGED <<device, nvdata, nvpart, config, once, settings>>

setenv(v) ==
    /\ phase = "up" /\ settings' = v
    /\ UNCHANGED <<device, nvdata, nvpart, config, once, phase, saved>>

Stored ==
    IF nvdata[config].len > 1
    THEN [nvdata EXCEPT ![config + 1] = Unit("other", 0, FALSE, settings)]
    ELSE nvdata

Kept ==
    IF saved = Foreign THEN Foreign
    ELSE IF nvdata[config].len > 1 THEN settings ELSE None


update_nvram ==
    /\ phase = "up"
    /\ nvdata' = Stored
    /\ device' = Stored
    /\ saved' = Kept
    /\ UNCHANGED <<nvpart, config, once, settings, phase>>

(* A client of the node seeks and writes as much as there is room for; the *)
(* device sees it with the next update_nvram.                               *)
nvram_write(pos, len, u) ==
    /\ phase = "up"
    /\ nvdata' = [a \in Addrs |->
                     IF a \in pos..Min({pos + len, NvUnits}) - 1 THEN u ELSE nvdata[a]]
    /\ saved' = Foreign
    /\ UNCHANGED <<device, nvpart, config, once, settings, phase>>

(* The machine restarts, at any moment. *)
Restart ==
    /\ nvdata' = device /\ nvpart' = 0 /\ config' = NoPart /\ once' = FALSE
    /\ settings' = Default /\ phase' = "scan"
    /\ UNCHANGED <<device, saved>>

nvconf_init == Visit \/ Zap \/ Ready

NvNext ==
    \/ nvconf_init
    \/ \E v \in Settings : setenv(v)
    \/ update_nvram
    \/ \E pos, len \in Addrs : nvram_write(pos, len, Unit("other", 1, FALSE, NoVal))
    \/ Restart

NvSpec == NvInit /\ [][NvNext]_nvVars /\ WF_nvVars(nvconf_init)

-----------------------------------------------------------------------------
RECURSIVE Partitions(_, _)
Partitions(data, p) ==
    IF p = NoPart THEN {NoPart} ELSE IF p = NvUnits THEN {}
    ELSE {p} \cup Partitions(data, next_nvpart(data, p))

(* When nvconf_init is done, nvram.config points to a system partition     *)
(* that lies in the NVRAM as a whole and has a right checksum, whatever    *)
(* the device held.                                                         *)
ConfigUsable ==
    [][phase = "scan" /\ phase' = "up" =>
          LET c == nvdata'[config'] IN
          /\ c.sig = "system" /\ c.ok
          /\ config' + c.len <= NvUnits
          /\ config' \in Partitions(nvdata', 0)]_nvVars

(* What update_nvram stored is what the configuration variables are after  *)
(* a restart, as long as no client has written to the NVRAM by itself.      *)
SettingsKept ==
    [][phase = "scan" /\ phase' = "up" /\ saved \notin {None, Foreign}
          => settings' = saved]_nvVars

(* nvconf_init starts over after every error it finds; it ends all the     *)
(* same, unless the machine is restarted again and again.                   *)
InitEnds == <>[](phase = "scan") => []<><<Restart>>_nvVars

(* Whatever the NVRAM holds, nvconf_init ends with a partition that can be *)
(* used, and with the settings that were stored before the restart.        *)
SettingsSurvive == ConfigUsable /\ SettingsKept /\ InitEnds
=============================================================================
