# WHOS in TLA+

WHOS is a small 32-bit x86 operating system: one kernel, no user space, a
desktop drawn into a framebuffer, a keyboard and a mouse driver, a file system
in memory. There is one CPU and one loop; everything concurrent about it is an
interrupt handler that runs between two instructions of that loop. These modules
model its logic, `PROJECT.json` maps every definition to the lines it stands
for, and this file says what is modelled, checked, proved and left out.

## The system

| Component | State | Operations | Made correct by |
|---|---|---|---|
| Keyboard driver (`kernel/keyboard.c`) | `kb_state`, `key_buffer`, `buffer_start`, `buffer_end` | IRQ1 handler; `has_key`, `get_char` | accepted characters come out once, in order; no modifier sticks; case follows shift and caps lock |
| Mouse driver (`kernel/mouse.c`) | `mouse_cycle`, `mouse_bytes`, `mouse_state`, bounds | IRQ12 handler; `mouse_init`, `mouse_set_bounds` | one report moves the pointer once; the pointer stays on the screen; lost bytes are recovered from |
| Window table (`kernel/gui.c`) | `windows[]`, `window_count`, `focused_window` | create, destroy, focus, show, hide; close, minimize, restore, drag inside `handle_mouse` | no window lost; the focused one on top; title bars in the rows above the taskbar |
| Pointer handling (`handle_mouse`) | `dragging_window`, drag offsets, `start_menu_open`, previous button, icons | one pass per `gui_update` | one click per press; drags move what was grabbed |
| Main loop and applications (`kernel/kernel.c`) | `notepad_buffer`, `notepad_cursor`, three window pointers, `file_counter` | key loop, ESC save, open functions, drawing callbacks | keys go to the focused window; what is shown is what is saved; saved documents are kept |
| File system (`kernel/filesystem.c`) | 64 slots and a count | create, open, write, read, delete, list, exists, size | a directory with no stale bytes; the count agrees with the slots |
| Interrupt dispatch (`kernel/idt.c`, `boot/isr.s`) | IDT, handler table, PIC masks | remap, register, dispatch, acknowledge | handlers run whole, each interrupt acknowledged |
| Graphics (`kernel/graphics.c`) | `backbuffer`, mode, framebuffer | pixels, rectangles, lines, gradients, text, swap | every store inside the back buffer; the picture is the one asked for; lines end, and are straight |
| Drawing (`gui_update`, `draw_desktop_icon`, the drawing callbacks of `kernel.c`) | none of its own | one picture per pass | the window seen under the pointer is the one clicked; text stays in its area |
| GDT, boot code, font, string and port helpers | constant tables | | |

How they meet: the handlers of the two drivers write `key_buffer`, `kb_state`
and `mouse_state` while the main loop reads them, without locks or `cli`.
`kernel_main` calls `gui_update`, which calls `handle_mouse`, which calls back
into `kernel.c` (the open functions of the icons), which calls `gui.c` again.
`kernel.c` and `handle_mouse` keep pointers to slots of `windows[]` across
calls, while focusing a window moves windows between slots. The notepad saves
through the file system and the explorer lists it.

The behaviours that are hard are therefore: handlers between any two accesses of
the loop; slots that change owner under a kept pointer; the mouse state re-read
several times in one pass; counters and arrays at their limits; byte streams
that lose a byte. `PROJECT.json` lists each as a hazard with its line.

## The modules

| Module | Models | Composes |
|---|---|---|
| `KeyQueue` | what the keyboard driver promises: a bounded queue | |
| `Keyboard` | the driver against the key loop, one step for each access to shared state | refines `KeyQueue` |
| `UsKeymap` | the two scancode tables | |
| `Pointer` | what the mouse driver promises: one move for each report | |
| `Mouse` | packet assembly from bytes that may be lost | refines `Pointer` until a byte is lost |
| `Directory` | what the file system promises | |
| `FileSystem` | `filesystem.c`, every function | refines `Directory` |
| `WindowStack` | what the window manager promises: a stack with one active window | |
| `Windows` | the slot table and every operation on it | refines `WindowStack` |
| `Notepad` | the notepad's text | |
| `NotepadView` | how that text is laid out in its window | `Notepad` |
| `Canvas` | what the drawing primitives promise: a picture with signed coordinates | |
| `Line` | the loop of `graphics_draw_line`, one step per iteration | |
| `Graphics` | `graphics.c`: every primitive on the linear back buffer, in wrapping arithmetic | `Line`; refines `Canvas` |
| `Ps2` | set-up of controller and interrupts, and dispatch, against the 8042 and the 8259s | |
| `Desktop` | the running system: key loop, `handle_mouse`, the open functions, saving | `KeyQueue`, `Windows`, `Notepad`, `FileSystem` |
| `Display` | what `gui_update` draws where the pointer is | `Desktop` |
| `KeyboardProofs`, `MouseProofs`, `NotepadProofs`, `WindowsProofs`, `GraphicsProofs`, `FileSystemProofs`, `Ps2Proofs`, `DesktopProofs` | the proofs; those of `Desktop` use the lemmas of its parts | |

Each `MC` module gives one of them small constants for TLC; `Ps2` has a single
number and needs none.

### Correspondence

*Keyboard.* A handler runs with interrupts off from `boot/isr.s` to `iret`, so
it is one action (`KeyDown`, `KeyUp`). `HasKey`, `GetEmpty`, `GetLoad` and
`GetStore` are the accesses of `keyboard_has_key` and `keyboard_get_char` in
program order; the load of the character before the store of `buffer_start` is
also the order in `build/keyboard.o`. The byte E0 before an extended key is
ignored by the handler and left out; the key then arrives as its plain code,
which is why keys are pairs. The refinement mapping reads the ring from
`buffer_start` on: `queue` is the `Count` entries there, `last` is the loop's
`c`.

*Mouse.* Bytes are 0..255 and the handler's signed reading of them is `Signed8`.
`Lose` stands for the two places that read the data port without looking at
whose byte it holds, `keyboard_handler` and `mouse_init`.

*Ps2.* One action for each exchange of `mouse_init` with the controller; what
the program waits for and what it reads are separate from what the devices send.
`mouse_read` returns a byte once the output buffer is full, or, when nothing is
on its way, the last byte again: that is the wait of 100000 polls running out,
which takes longer than a device needs to answer. `Interrupt` is
`irq_common_stub` with `irq_handler` and the registered handler, in the code's
order: end of interrupt first. A byte carries only its origin and its place in a
packet; the scancode handling is in `Keyboard`, the packet in `Mouse`. A byte of
another kind taken for the controller's configuration has bits that may say
anything, so `NewConfig` leaves them free.

*FileSystem.* A handle is a slot number, and `fs_write_file` and `fs_read_file`
accept any, stale ones included. Reused slots keep their old bytes. Under the
mapping a file is its name and the bytes before its size. Of the buffer of a
read only its size counts, and whether there is one.

*Windows.* A window pointer is a slot number. The operators take a table and
return one, so that a handler that calls several of them is one step. `id` (the
order of creation) is the window's identity, which the code does not record;
`app` stands for the title and the callbacks. In the mapping, `order` is the ids
by slot and `active` is the id in the focused slot. The CLOSABLE flag is never
read and is left out.

*Notepad.* `Pens` in `NotepadView` are the values of `x` and `y` each time
`notepad_draw`'s loop comes to a character, `Reached` the characters it comes to
before the NUL or the bottom. A corner of the window may lie left of the screen,
where the unsigned coordinates wrap. `MarginMissed` names the places where
`TextStaysInTextArea` promises nothing (see the observations).

*Graphics.* `Word` is 2^32 and `Byte` 2^8, as constants, so that TLC can use
small ones and the proofs hold for all. A primitive's loop is the set of pixels
it visits, painted at once (`Paint` of an image, a colour for each of them);
nothing else runs in between that could tell. The line is the exception: whether
its loop ends is the question, so each iteration is a step. A colour is one
channel, since the three are computed alike. A store outside the array sets
`overrun` and ends the run of the model, since the memory behind it could be
anything. `request` and `calls` record the last call for the refinement mapping,
which reads the back buffer as `graphics_get_pixel` does. `text_x` is the place
of an icon's label. Reading the boot loader's record is choosing a mode.

*Display.* The covering of one point: which of desktop, shadow, window, taskbar
and start menu `gui_update` draws last at the pointer.

*Desktop.* `pc` says where the loop is. `handle_mouse` is cut where it reads the
mouse again: `Sample` (the button, drag and drop), `ClickWindows` (start button
and windows), `ClickIcons`, `ClickTaskbar`, `Finish` (the button again, to
remember it). Within one of these the position is read once, where the code
reads it once for each rectangle; the points the mouse may have are closed under
taking one coordinate from each of two, so that a torn pair is one of them.
`Finish` may remember the button as first sampled or as it is then, since
`mouse_state` is not volatile and `build/gui.o` reuses the first value when it
was up. A packet (`MousePacket`) moves the pointer or changes the button; one
that does both acts as two with nothing in between. What a pass keeps in local
variables ends with it. Window titles, the selection of icons and the previous
mouse position are only drawn, and left out.

## What the runs check

| Run | Bounds | Shows |
|---|---|---|
| `keyboard` | ring of 3; both shifts, ctrl, caps lock, a letter | the ring is a fair queue, drops only when full, modifiers never stick, case is shift xor caps lock |
| `mouse` | 80x8 screen; 3 movements, 2 button states; 2 bytes lost | the pointer follows whole reports until a loss, and gets back in step |
| `ps2` | 4 key strokes, movements or timer ticks, from power-on; with and without a mouse; keyboard and mouse masked or not by the firmware | set-up always finishes; after a quiet one both devices work, no byte is misread and none blocks the buffer |
| `file_system` | 3 slots, 3 names (one cut to another), 3 contents (one too long) | the file system implements the directory |
| `windows` | 3 slots, 2 shapes, 1 drag beyond two edges | the table implements the stack; focus on top; title bars in the rows above the taskbar |
| `notepad` | array of 7, texts of 3 and 2; a window for two rows of two, at 8 places, on the screen, across its left side, and where the margin is missed | drawn is saved; the cursor stays in the array; the page shown is the text, inside its frame |
| `desktop_clicks` | 2 windows, 9 points, 3 presses | pointers name slots in use; closed windows stay closed; of the visible windows only the focused one has the flag; the window seen is the window clicked; no click invented |
| `desktop_documents` | 2 presses, 2 keys, 2 files | saved documents distinct and kept; the loop always comes back to the queue and takes every key |
| `graphics` | 2 calls; words of 64, channels of 8; a back buffer of 6 pixels, modes with adjacent and padded rows, too large, and the fallback; 6 line ends | the back buffer is the picture asked for, save for the two kinds of call below, no store outside it, the copy shows it; lines end and are straight |
| `desktop_typing` | 2 windows, 6 points, 3 presses, 1 key | **violated**: keys reach the notepad while another window has the focus |
| `desktop_grab` | 2 windows, 4 points, 4 presses | **violated**: the wrong window is dragged |
| `graphics_asked` | 1 call, as in `graphics` | **violated**: a wide name is not drawn below its icon, a gradient to a lower value leaves its colours |

*Why the bounds are enough.* A ring of three has a full, an empty and a wrapped
state; three slots distinguish shifting windows down from exchanging two of
them; two windows give every kept pointer a wrong slot to name; the screen of
the mouse run is narrower than one movement, so every clamp is met; names and
contents in the file system are of both kinds the code distinguishes, those that
fit and those that do not. Two calls are a picture and a change to it, or a
picture and its copy; positions lie left of the screen, on it and at its edge,
and lengths reach past it, so that every clip and every wrap is met; a gradient
of three rows is one that a falling channel spoils. The notepad's window has 40
by 84 pixels: with 640 by 480 it has in common what is left of a row and of the
text area when they are full. `MaxCalls` bounds the calls, `Presses` bounds how
often the button goes down, `MaxLost` how many bytes are lost, `MaxEvents` how
often a device has something to say; nothing else is cut off. Four events are
one of each kind and a second of any, and a movement is three bytes. The desktop
runs use the real 800x600 geometry and the real windows and icons. Three presses
open both windows and do one thing more; `desktop_clicks` with a fourth, two and
a half million states, passes as well but takes minutes.

*Fairness.* `kernel_main` loops for ever and a handler always returns to it, so
the main loop has weak fairness. In `Ps2` the CPU goes on with set-up, takes an
interrupt that is delivered to it, and the controller hands over a byte it has.
A line is drawn with weak fairness too: `graphics_draw_line` is left only by its
own `break`, and interrupts return to it. Nothing is assumed of the user, except
in `GetsBackInStep`, which is about a mouse that keeps being moved.

*A quiet set-up.* Three properties of `Ps2` speak of runs in which no device
sends a byte of its own until set-up is over and the requests it left behind
have been served. Otherwise `mouse_init` may take a scancode for the
configuration or an acknowledgement for nothing: the byte it writes back may
disable the keyboard, and the answer it did not read reaches `mouse_handler` as
the first byte of a packet, which is the state from which `Mouse` shows how the
driver gets back in step. `BootFinishes` holds in every run.

*The three violated properties.* Each states what comments say, and the
counterexample is a run of the code. Two come from one cause: `gui_focus_window`
moves windows between slots while `notepad_window` and `dragging_window` still
name the old ones.

- `TypingNeedsFocusedNotepad` (`kernel.c:203`): keys typed with another window
  focused change the notepad's text. So do keys typed after it is closed: its
  slot keeps the FOCUSED flag and `kernel.c:204` does not look at VISIBLE
  (`FocusFlagIsFocus`, which does hold, is about visible windows only). In the
  same way a click on the notepad's icon can focus another window.
- `DragsGrabbedWindow` (`gui.c:332`): the window that slid into the slot is
  dragged, not the one grabbed, and with an offset that may lie outside it.
  Since `gui.c:289-293` limits `y` only, the settings window, 400 pixels wide,
  can so be dragged wholly off the left side; `TitleBarAboveTaskbar` is about
  rows.
- `LabelsAndGradientsAsAsked` (`gui.c:127` and `graphics.c:143`): the room left
  beside a name is an unsigned number, so names wider than the icon's 64 pixels,
  "My Computer", "Documents" and "Recycle Bin", are placed 2^31 columns to the
  right and never drawn (`LabelPlace`); a channel that falls is interpolated
  modulo 2^32, and every channel of the desktop's background falls
  (`FallingChannel`). TLC prints whichever of the two it meets first; the two
  theorems say what happens in either case.

`Canvas` asks for every label and every gradient, so `ImplementsCanvas` excepts
these two kinds of call by name: `Misdrawn` says all that the code does then,
which is to draw no label, and stripes of some colours inside the gradient's
box.

*Observations.* These the models show too, and no property is about them: the
keyboard keeps one flag for two shift keys, so releasing one reports shift as up
while the other is down; F2, which the notepad's text names for saving, has no
entry in the scancode tables, and ESC saves in its place; a click on a taskbar
button also acts on a window under it, although the taskbar is drawn on top, and
the focus that window takes moves the slots before the buttons are counted; the
button is read twice in one pass, and a release in between is remembered without
being acted upon, so `dragging_window` stays set and the window jumps to the
mouse at the next press, wherever that is; a window partly left of the screen is
drawn only in scattered parts, and the notepad's text vanishes when it is more
than 10 pixels out; when it is so far out that only 14 to 19 of its pixel
columns are left, which a drag by the last column of the title bar does, the
right margin `win->x + win->width - 20` is a very large unsigned number while
the pen comes back to the left side of the screen, and a row of more than 77
characters goes on across the desktop (`MarginMissed`); the 480 pixels of its
height are right, but a height of 61 more than a multiple of 18 would put the
last row on the frame's bottom line (`NotepadViewAssumption`); the notepad does
not scroll; the mode is not compared with the back buffer's size.

## What is proved

TLAPS proves, for every value of the constants that satisfies the named
assumptions:

- `KeyboardProofs`: `TypeCorrect`, `LoopSeesKeys`, and
  `KeyboardImplementsQueue`, the refinement. The invariant `RingInv` adds to the
  type invariant what the loop knows at each `pc`: that the ring is not empty
  between `has_key` and the store, and that the loaded character is still the
  oldest. It is needed because the handler changes `buffer_end` between any two
  of the loop's steps; it never touches `buffer_start` or a pending entry. A
  lemma describes `Pending` after a put and after a take, and the three kinds of
  step follow. From the same lemma `NoEarlyDrop`, that only a full ring drops a
  character. `ModifiersNeverStick` relates the flags to the keys held down;
  `LetterCase` needs of a layout only `LettersAssumption`, that its tables keep
  the cases apart.
- `MouseProofs`: `MouseTypeCorrect` with any number of lost bytes, and, until
  one is lost, `StaysInStep` and `ReportsMoveThePointer`. The invariant
  `PacketInv` says that the bytes read and the bytes on the wire are the two
  parts of one packet; the arithmetic is in the lemma that a byte carries a
  movement of -128..127 there and back.
- `Ps2Proofs`: `DevicesWork` and `BytesInPlace`, for any number of strokes,
  movements and ticks. The invariant `QuietInv` says of a set-up that no device
  disturbed that each answer is the only byte on its way while the program waits
  for it, and of the running system that the bytes of the mouse, the one in the
  buffer first, are the rest of one packet from `mouse_cycle` on, and that a
  request is of the byte in the buffer; a lemma follows for each group of steps.
- `NotepadProofs`: `TextInvariant`, that cursor and characters stay in range,
  that the array holds a NUL for the drawing loop to stop at, and that what is
  drawn is what is saved; `CursorInBuffer` and `DrawingStops` are parts of it.
  On these rest the theorems on the layout: `TextInItsArea` and `PageShown`.
  `PenInGrid` shows that the pen is always on a grid of rows and columns that
  begins at the window's corner, wrapped or not, and `PenOnPage` that for the
  i-th character these are its row and column of the page, although the pen
  counts them one step at a time and the page by the breaks before it.
  `NotepadViewAssumption` asks of the window what the 640 by 480 of
  `open_notepad` satisfy.
- `GraphicsProofs`: `LinesAreStraight`, `LinesStayInBox` and
  `LinesApproachTheirEnd`, between any two points. `LineInv` says what `err` is:
  the distance of the point from the true line, kept within bounds that make the
  two tests of the loop step on the right axes. The hard lemma is `NoOvershoot`:
  an axis that has reached its end is not stepped again before the other one
  has. With it each iteration brings the end nearer, which is the safety half of
  `LineEnds`; that the loop goes on until then is fairness, which TLC checks.
  `LinesInPictures` carries this to the lines drawn among other calls.
  `GraphicsTypes`; `StoresStayInside`, that no primitive with any arguments
  stores outside the back buffer in a mode that fits; `RisingChannel` and
  `FallingChannel`, what a gradient's arithmetic gives either way; `LabelPlace`,
  where a label goes. One lemma for every primitive shows that the pixels it
  paints are visible, and `IndexInCells` that those have a cell.
  `GraphicsImplementsCanvas` is the refinement, with the two exceptions of
  `Misdrawn`, and `CopiesArePictures` that the copy shows the picture. Both rest
  on `ModeInv` (a mode that does not fit is never drawn in, so that a picture
  exists) and on `IndexApart` and `RowsApart`: no two pixels share an index, and
  no two rows of the frame buffer a byte. `PaintShows` then says what storing an
  image does to the picture, and `NearWord` that a sum modulo 2^32 is on the
  screen only if the sum itself is; a lemma for each primitive compares its loop
  with what its request describes. `PensArePlaces` shows that the pen of a text,
  which moves a character at a time, is where counting from the last line break
  puts the character, and `LineAsked` with `LineInv` that each point of a line
  is in the box of the ends asked for. `RangeAssumption` says that a frame
  buffer lies in the address space, that sizes, positions and texts are at most
  an eighth of 2^32 pixels, thousands of times what the program has, and that
  glyphs are as large as the font's; no line break is ever drawn, since both
  loops over a text test for it first.
- `WindowsProofs`: `WindowsTypeCorrect`, `FocusedWindowIsTop`, `NoWindowLost`
  and `TitleBarsKeepTheirRows`. `TableInv` adds to them that ids are the numbers
  up to the count; a lemma for each operator says what it does to the table.
  `WindowsImplementStack` is the refinement: `FocusRaises` describes the order
  of ids after `gui_focus_window` has shifted the slots, and each operation is
  then a step of the stack or leaves it as it is.
- `FileSystemProofs`: `FilesFit`, `CountIsExact` and
  `FileSystemImplementsDirectory`. The invariant `FsOK` says that every slot has
  a proper name and size, used or not, and that the count is the number of slots
  in use; a lemma for each function says which slot it changes. The hard part of
  the refinement is `fs_list_files`, whose k-th entry is the k-th slot in use:
  `ListedGrows` and `ListedCount` say that this is a sequence of all files, each
  once.
- `DesktopProofs`, for every screen of at least 640 by 520, number of windows,
  of files and of characters, and any positions of the pointer
  (`ScreenAssumption`, `TextAssumption`, `FilesAssumption`):
  `DesktopTypeCorrect`, that every pointer the loop keeps across passes and
  calls names a slot in use; `FocusFlagAgrees`, `NothingReopens`,
  `ClicksArePresses`, `DocumentsAreKept`, `DocumentNamesDiffer` and
  `ClicksReachWhatIsSeen`. Its invariant `Inv` has four parts that are kept one
  by one: `GuiOK` (the table is one of `Windows`' and the kept pointers are in
  use), `TextInv` of `NotepadProofs`, `FilesOK` (`FsOK`, and that document names
  in use are below `file_counter` and differ), and `ButtonOK` (what the last
  pass remembers of the button is out of date only while a change is unseen).
  That a pointer is in use, not that it names the window it was taken for, is
  what is true of this code: the violated runs show the rest is not.

A recursive function is proved about here by its least counterexample
(`NatLessThanWellFounded` with `WFMin`), since the theorems on induction take an
operator: `PensExist` shows that the function of the pen exists, `LeastMember`
and its like the rest.

Only model-checked: liveness (`ImplementsFairQueue`, of which
`KeyboardImplementsQueue` is the safety half, `TakesEveryKey`, whose safety half
holds by the shape of `Desktop`, `GetsBackInStep`, `BootFinishes`,
`BufferDrains`, `LineEnds`), which is out of this prover's reach. Every other
property that a passing run checks is a theorem.

## What is not modelled

`gui_toggle_start_menu` and `gui_draw_button` have no callers. The shapes of
icons, buttons, the menu and the cursor are constant pictures; the contents of
the explorer and the settings are lists of constants and of the file names
`FileSystem` is about. Pixels of other than four bytes are not modelled: the
code stores `fb_bpp` and never reads it. CPU exceptions have no registered
handler and `isr_handler` does nothing for them. `Ps2` assumes of the hardware
that a request is latched when its byte enters the buffer, that the buffer is
announced as the mouse's only while it holds a byte of the mouse, that commands
to the controller are accepted before the wait for it runs out, and that the
firmware left the cascade line open, which the code does not touch. The GDT, the
boot code and the font are constants. `string.h` and `io.h` appear inside the
actions that use them. Interrupts without a byte behind them, keyboard commands
and devices unplugged later are outside the program.

## Plan

1. What a key pressed during set-up leads to, as a property of `Ps2` of its own,
   and with it a proof that `mouse_handler` gets back in step at the first byte
   that cannot begin a packet.
2. Variants for the other liveness properties, as `LinesApproachTheirEnd` is one
   for `LineEnds`: that set-up counts down its waits (`BootFinishes`), and that
   every pass of the loop shortens the ring (`TakesEveryKey`).
