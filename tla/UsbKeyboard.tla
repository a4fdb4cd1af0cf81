---------------------------- MODULE UsbKeyboard ----------------------------
(***************************************************************************)
(* The USB keyboard driver (drivers/usbhid.c): reports of the keys held    *)
(* down become characters in a buffer that all keyboards share.  A key is  *)
(* a number, a report a sequence of keys in the order of their slots; a    *)
(* character is the pair of bytes of a short.                              *)
(***************************************************************************)
EXTENDS Integers, Sequences, SequencesExt, FiniteSetsExt

CONSTANTS
  Keyboards,
  Keys,        \* usage codes; the largest one has no character
  Slots,       \* keys in a report (6 in the code)
  BufferSize,  \* KEYBOARD_BUFFER_SIZE
  Delays,      \* <<INITIAL_REPEAT_DELAY, REPEAT_DELAY>>
  Rollover     \* do keyboards report an overflow when too many keys are held?

VARIABLES
  keybuffer,   \* bytes, most significant byte of a short first
  keycount,
  hid,         \* per keyboard: present, previous, lastkeypress, repeat_delay
  held,        \* per keyboard: the keys held down, in the order they were pressed
  typed        \* what was queued and not read yet

kbVars == <<keybuffer, keycount, hid, held, typed>>

Modifiers == {"", "shift", "ctrl"}
NoKey == <<0, 0>>
Overflow == 1
Report(keys, mod) == [keys |-> keys, mod |-> mod]
Nothing == Report(<<>>, "")

\* map->map and the treatment of Ctrl; NoKey where nothing is queued.  The first
\* key is a letter.
Character(key, mod) ==
  IF key = Overflow \/ key = Max(Keys) THEN NoKey
  ELSE IF mod = "ctrl" THEN IF key = Min(Keys) THEN <<0, 128 + key>> ELSE NoKey
  ELSE IF mod = "shift" THEN <<0, 64 + key>> ELSE <<0, key>>

KbInit ==
  /\ keybuffer = [i \in 0 .. 2 * BufferSize - 1 |-> 0]
  /\ keycount = 0
  /\ hid = [k \in Keyboards |-> [present |-> FALSE, previous |-> Nothing, last |-> NoKey, delay |-> 0]]
  /\ held = [k \in Keyboards |-> <<>>]
  /\ typed = <<>>
-----------------------------------------------------------------------------
\* usb_hid_init; the memory is zeroed by malloc.  What was buffered is dropped.
usb_hid_init(k) ==
  /\ ~hid[k].present
  /\ hid' = [hid EXCEPT ![k] = [present |-> TRUE, previous |-> Nothing, last |-> NoKey, delay |-> 0]]
  /\ keycount' = 0 /\ typed' = <<>>
  /\ UNCHANGED <<keybuffer, held>>

usb_hid_destroy(k) ==
  /\ hid[k].present /\ held[k] = <<>>
  /\ hid' = [hid EXCEPT ![k].present = FALSE]
  /\ UNCHANGED <<keybuffer, keycount, held, typed>>

\* usb_hid_keyboard_queue for each of chars, as long as there is room.
Queue(chars) ==
  LET new == SubSeq(chars, 1, Min({Len(chars), BufferSize - keycount})) IN
  /\ keycount' = keycount + Len(new)
  /\ keybuffer' =
       [i \in DOMAIN keybuffer |->
          IF i >= 2 * keycount /\ i < 2 * keycount'
          THEN new[(i - 2 * keycount) \div 2 + 1][(i % 2) + 1] ELSE keybuffer[i]]
  /\ typed' = typed \o new

IsRepeat(h, current) == h.last # NoKey /\ current = h.previous

\* The keys of a report that the previous one did not have, and their characters.
NewKeys_All(h, current) == current.keys
NewKeys(h, current) == SelectSeq(current.keys, LAMBDA key : ~Contains(h.previous.keys, key))

\* usb_hid_process_keyboard_event for one report; the keyboard has just sent it.
usb_hid_process_keyboard_event(k, current) ==
  LET h == hid[k]
      chars == SelectSeq([i \in DOMAIN NewKeys(h, current) |-> Character(NewKeys(h, current)[i], current.mod)],
                         LAMBDA c : c # NoKey)
  IN  /\ h.present
      /\ IF IsRepeat(h, current)
         THEN /\ Queue(IF h.delay = 0 THEN <<h.last>> ELSE <<>>)
              /\ hid' = [hid EXCEPT ![k].delay = IF h.delay = 0 THEN Delays[2] ELSE h.delay - 1,
                                    ![k].previous = current]
         ELSE /\ Queue(chars)
              /\ hid' = [hid EXCEPT ![k].previous = current,
                                    ![k].last = IF chars = <<>> THEN NoKey ELSE Last(chars),
                                    ![k].delay = IF chars = <<>> THEN h.delay ELSE Delays[1]]

\* What a keyboard (external) reports of the keys that are held.
Reported(keys, mod) ==
  IF Len(keys) <= Slots THEN Report(keys, mod) ELSE Report([i \in 1 .. Slots |-> Overflow], mod)

PressOrRelease(k) ==
  \E keys \in {held[k]} \cup {Append(held[k], key) : key \in {x \in Keys : ~Contains(held[k], x)}}
              \cup {RemoveAt(held[k], i) : i \in DOMAIN held[k]}, mod \in Modifiers :
    /\ Rollover \/ Len(keys) <= Slots
    /\ held' = [held EXCEPT ![k] = keys]
    /\ usb_hid_process_keyboard_event(k, Reported(keys, mod))

\* keyboard_read takes characters; usbhid_getchar moves as many bytes as there
\* are characters left.
usbhid_getchar ==
  /\ keycount > 0
  /\ keycount' = keycount - 1
  /\ keybuffer' = [i \in DOMAIN keybuffer |-> IF i < keycount - 1 THEN keybuffer[i + 2] ELSE keybuffer[i]]
  /\ typed' = Tail(typed)
  /\ UNCHANGED <<hid, held>>

KbNext ==
  \/ \E k \in Keyboards : usb_hid_init(k) \/ usb_hid_destroy(k) \/ PressOrRelease(k)
  \/ usbhid_getchar

KbSpec == KbInit /\ [][KbNext]_kbVars
-----------------------------------------------------------------------------
Queued == SubSeq(typed', Len(typed) + 1, Len(typed'))

\* A character enters the buffer only for a key that its keyboard holds down, with
\* the modifiers it has now; a repeated character too.
NoPhantomKeys ==
  [][Len(typed') > Len(typed) =>
       \E k \in Keyboards : \A c \in ToSet(Queued) :
         \E i \in DOMAIN held'[k] : Character(held'[k][i], hid'[k].previous.mod) = c]_kbVars

\* A key that stays down is entered again only by the key repeat, that is, by an
\* unchanged report.
HeldKeysOnce ==
  [][\A k \in Keyboards :
       hid[k].previous # hid'[k].previous /\ hid[k].present =>
         \A c \in ToSet(Queued) : \E key \in ToSet(held'[k]) \ ToSet(held[k]) :
           Character(key, hid'[k].previous.mod) = c]_kbVars

\* Characters are read in the order in which they were entered.
ReadInOrder ==
  \A i \in 1 .. keycount : <<keybuffer[2 * i - 2], keybuffer[2 * i - 1]>> = typed[i]

\* The keys that are held, and only they, are entered, and only once, whatever
\* reports are missed and however the keyboards come and go.
KeysRight == NoPhantomKeys /\ HeldKeysOnce
=============================================================================
