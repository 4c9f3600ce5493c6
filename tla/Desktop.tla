------------------------------- MODULE Desktop -------------------------------
(***************************************************************************)
(* The running system: the main loop of kernel/kernel.c, which takes keys, *)
(* edits and saves the notepad's text and calls gui_update, together with  *)
(* the mouse and keyboard interrupts that change the state it reads.       *)
(*                                                                         *)
(* Composed from KeyQueue (what the keyboard driver promises), Windows     *)
(* (the window table of gui.c), Notepad (the text) and FileSystem.  The    *)
(* mouse appears as its mouse_state_t, which an interrupt may change       *)
(* between any two steps of the loop.  handle_mouse reads that state       *)
(* several times in one pass, so it is split where it reads again: to      *)
(* sample the button, for the start button and the windows, for the icons, *)
(* for the taskbar, and to remember the button.                            *)
(*                                                                         *)
(* Left out, since only drawing reads it: window titles, icon selection,   *)
(* prev_mouse_x and prev_mouse_y.                                          *)
(***************************************************************************)
EXTENDS Integers, Sequences, FiniteSets

CONSTANTS
  MAX_WINDOWS, screen_w, screen_h,
  Xs, Ys,                     (* coordinates the mouse may have             *)
  Presses,                    (* bound: how often the button is pressed     *)
  Keys, KeyCapacity,          (* characters typed, and the room for them    *)
  BUFFER_SIZE, INITIAL_LEN, WELCOME_LEN,
  MAX_FILES, MAX_FILENAME_LEN, MAX_FILE_SIZE

(* The largest window, 640 by 480, fits above the taskbar of 40 rows *)
ASSUME ScreenAssumption ==
  /\ MAX_WINDOWS \in Nat
  /\ screen_w \in Nat /\ 640 <= screen_w
  /\ screen_h \in Nat /\ 520 <= screen_h
  /\ Xs \subseteq Int /\ Ys \subseteq Int

ASSUME TextAssumption ==
  /\ BUFFER_SIZE \in Nat
  /\ INITIAL_LEN \in 0 .. BUFFER_SIZE - 1
  /\ WELCOME_LEN \in 0 .. BUFFER_SIZE - 1

(* A document's name, here its two digits, is not cut *)
ASSUME FilesAssumption ==
  /\ MAX_FILES \in Nat
  /\ MAX_FILENAME_LEN \in Nat /\ 2 < MAX_FILENAME_LEN
  /\ MAX_FILE_SIZE \in Nat

VARIABLES
  queue, key,                         (* keyboard buffer, kernel_main's c   *)
  table,                              (* windows[] and its statics          *)
  notepad_buffer, notepad_cursor, opened,
  fs, result, file_counter,
  app_window,                         (* notepad_window and its two fellows *)
  dragging_window, drag_offset, start_menu_open, prev_left_button,
  mouse,                              (* [x, y, left] of mouse_state_t      *)
  pc, clicked, sampled,               (* where the loop is; handle_mouse's locals *)
  presses,                            (* counts the presses, for the bound  *)
  unseen      (* history: the last press has not been taken for a click     *)

text == <<notepad_buffer, notepad_cursor, opened>>
files == <<fs, result, file_counter>>
drag == <<dragging_window, drag_offset>>
gui == <<table, drag, start_menu_open, app_window>>
env == <<mouse, presses>>
vars == <<queue, key, table, notepad_buffer, notepad_cursor, opened, fs,
          result, file_counter, app_window, dragging_window, drag_offset,
          start_menu_open, prev_left_button, mouse, pc, clicked, sampled,
          presses, unseen>>

(* The windows the three open_ functions create *)
Shape(app) ==
  CASE app = "notepad"  -> [app |-> app, x |-> 80,  y |-> 60, w |-> 640, h |-> 480]
    [] app = "settings" -> [app |-> app, x |-> 200, y |-> 80, w |-> 400, h |-> 300]
    [] app = "explorer" -> [app |-> app, x |-> 100, y |-> 60, w |-> 600, h |-> 400]
Apps == {"notepad", "settings", "explorer"}

W == INSTANCE Windows WITH Shapes <- {Shape(a) : a \in Apps},
                           DragPositions <- {}
N == INSTANCE Notepad
K == INSTANCE KeyQueue WITH Char <- Keys, Capacity <- KeyCapacity, last <- key
FS == INSTANCE FileSystem WITH Names <- {}, Contents <- {}

NULL == -1
ESC == 27

Init ==
  /\ K!Init /\ W!Init /\ N!Init /\ FS!Init
  /\ file_counter = 1
  /\ app_window = [a \in Apps |-> NULL]
  /\ dragging_window = NULL /\ drag_offset = <<0, 0>>
  /\ start_menu_open = FALSE /\ prev_left_button = FALSE
  /\ mouse \in [x : Xs, y : Ys, left : {FALSE}]
  /\ pc = "keys" /\ clicked = FALSE /\ sampled = FALSE
  /\ presses = 0 /\ unseen = FALSE

-----------------------------------------------------------------------------
(* Interrupts *)

KeyArrives ==
  /\ \E c \in Keys : K!Accept(c)
  /\ UNCHANGED <<gui, text, files, prev_left_button, env, pc, clicked,
                 sampled, unseen>>

(* A packet moves the pointer, or presses or releases the button.  One     *)
(* that does both leaves what two of them leave, with no step in between.  *)
MousePacket ==
  /\ \/ mouse' \in [x : Xs, y : Ys, left : {mouse.left}]
     \/ mouse' = [mouse EXCEPT !.left = ~@]
  /\ LET pressed == mouse'.left /\ ~mouse.left IN
     /\ pressed => presses < Presses
     /\ presses' = IF pressed THEN presses + 1 ELSE presses
     /\ unseen' = (pressed \/ unseen)
  /\ UNCHANGED <<queue, key, gui, text, files, prev_left_button, pc, clicked,
                 sampled>>

-----------------------------------------------------------------------------
(* The key loop of kernel_main *)

(* The test of the key loop: the slot notepad_window points to is flagged *)
NotepadFocused ==
  /\ app_window["notepad"] # NULL
  /\ "FOCUSED" \in table.windows[app_window["notepad"]].flags

(* Mutant: keys are taken only while the notepad has the focus *)
TakeKey_WhenFocused ==
  /\ pc = "keys"
  /\ IF queue = <<>> \/ ~NotepadFocused
     THEN pc' = "sample" /\ UNCHANGED <<queue, key>>
     ELSE pc' = "key" /\ K!Take
  /\ UNCHANGED <<gui, text, files, prev_left_button, env, clicked, sampled,
                 unseen>>

TakeKey ==
  /\ pc = "keys"
  /\ IF queue = <<>>
     THEN pc' = "sample" /\ UNCHANGED <<queue, key>>
     ELSE pc' = "key" /\ K!Take
  /\ UNCHANGED <<gui, text, files, prev_left_button, env, clicked, sampled,
                 unseen>>

IgnoreKey ==
  /\ pc = "key" /\ ~NotepadFocused
  /\ pc' = "keys"
  /\ UNCHANGED <<queue, key, gui, text, files, prev_left_button, env, clicked,
                 sampled, unseen>>

EditText ==
  /\ pc = "key" /\ NotepadFocused /\ key # ESC
  /\ N!TypeKey(key)
  /\ pc' = "keys"
  /\ UNCHANGED <<queue, key, gui, files, prev_left_button, env, clicked,
                 sampled, unseen>>

(* doc%d%d.txt from the counter, by its two digits *)
FileName(n) == <<n \div 10, n % 10>>

CreateDocument ==
  /\ pc = "key" /\ NotepadFocused /\ key = ESC
  /\ FS!fs_create_file(FileName(file_counter))
  /\ pc' = "save"
  /\ UNCHANGED <<queue, key, gui, text, file_counter, prev_left_button, env,
                 clicked, sampled, unseen>>

(* Mutant: the file counter is not advanced *)
WriteDocument_NoCount ==
  /\ pc = "save"
  /\ IF result.ok
     THEN \E h \in result.handles :
            FS!fs_write_file(h, [b \in 1 .. notepad_cursor |-> notepad_buffer[b - 1]])
     ELSE UNCHANGED <<fs, result>>
  /\ pc' = "keys"
  /\ UNCHANGED <<queue, key, gui, text, file_counter, prev_left_button, env,
                 clicked, sampled, unseen>>

(* Mutant: the text is written to the first file *)
WriteDocument_FirstFile ==
  /\ pc = "save"
  /\ IF result.ok
     THEN /\ FS!fs_write_file(0, [b \in 1 .. notepad_cursor |-> notepad_buffer[b - 1]])
          /\ file_counter' = file_counter + 1
     ELSE UNCHANGED <<fs, result, file_counter>>
  /\ pc' = "keys"
  /\ UNCHANGED <<queue, key, gui, text, prev_left_button, env, clicked,
                 sampled, unseen>>

(* The first notepad_cursor bytes of the buffer, if a file was created *)
WriteDocument ==
  /\ pc = "save"
  /\ IF result.ok
     THEN /\ \E h \in result.handles :
               FS!fs_write_file(h, [b \in 1 .. notepad_cursor |-> notepad_buffer[b - 1]])
          /\ file_counter' = file_counter + 1
     ELSE UNCHANGED <<fs, result, file_counter>>
  /\ pc' = "keys"
  /\ UNCHANGED <<queue, key, gui, text, prev_left_button, env, clicked,
                 sampled, unseen>>

-----------------------------------------------------------------------------
(* handle_mouse *)

(* Sample the button, drag or drop *)
Sample ==
  /\ pc = "sample"
  /\ sampled' = mouse.left
  /\ clicked' = (mouse.left /\ ~prev_left_button)
  /\ table' = IF dragging_window # NULL /\ mouse.left
              THEN W!DragTo(table, dragging_window, mouse.x - drag_offset[1],
                                                    mouse.y - drag_offset[2])
              ELSE table
  /\ dragging_window' = IF ~mouse.left /\ prev_left_button THEN NULL
                        ELSE dragging_window
  /\ unseen' = (unseen /\ ~clicked')
  /\ pc' = IF clicked' THEN "windows" ELSE "finish"
  /\ UNCHANGED <<queue, key, drag_offset, start_menu_open, app_window, text,
                 files, prev_left_button, env>>

InRect(x, y, w, h) == /\ mouse.x \in x .. x + w - 1
                      /\ mouse.y \in y .. y + h - 1

taskbar_y == screen_h - W!TASKBAR_HEIGHT

OnStartButton == InRect(4, taskbar_y + 4, 56, 32)
OnStartMenu == InRect(0, taskbar_y - 400, 300, 400)

NextStartMenu ==
  IF OnStartButton THEN ~start_menu_open
  ELSE start_menu_open /\ OnStartMenu

close_x(w) == w.x + w.w - 46
OnClose(w) == InRect(close_x(w), w.y + 1, 45, 28)
OnMinimize(w) == InRect(close_x(w) - 46, w.y + 1, 45, 28)
OnTitle(w) == InRect(w.x, w.y, w.w, W!TITLE_BAR_HEIGHT)
OnBody(w) == InRect(w.x, w.y, w.w, w.h)

Hit(win) == /\ W!OnScreen(table, win)
            /\ LET w == table.windows[win] IN
               OnClose(w) \/ OnMinimize(w) \/ OnTitle(w) \/ OnBody(w)

HitWindows == {win \in W!InUse(table) : Hit(win)}
Greatest(S) == CHOOSE i \in S : \A j \in S : j <= i

(* The drag starts from the slot that was hit, after gui_focus_window has  *)
(* moved the window out of it                                              *)
GrabTitle(win) ==
  /\ table' = W!gui_focus_window(table, win)
  /\ dragging_window' = win
  /\ drag_offset' = <<mouse.x - table'.windows[win].x,
                      mouse.y - table'.windows[win].y>>

ClickWindow(win) ==
  LET w == table.windows[win] IN
  IF OnClose(w) THEN table' = W!CloseButton(table, win) /\ UNCHANGED drag
  ELSE IF OnMinimize(w) THEN table' = W!MinimizeButton(table, win) /\ UNCHANGED drag
  ELSE IF OnTitle(w) THEN GrabTitle(win)
  ELSE table' = W!gui_focus_window(table, win) /\ UNCHANGED drag

ClickWindows ==
  /\ pc = "windows"
  /\ start_menu_open' = NextStartMenu
  /\ IF HitWindows # {} THEN ClickWindow(Greatest(HitWindows))
                        ELSE UNCHANGED <<table, drag>>
  /\ pc' = "icons"
  /\ UNCHANGED <<queue, key, app_window, text, files, prev_left_button, env,
                 clicked, sampled, unseen>>

(* Desktop icons, by position; the recycle bin opens nothing *)
IconAt(x, y) == InRect(x, y, 64, 80)
IconApp == CASE IconAt(20, 20) \/ IconAt(20, 110) -> "explorer"
             [] IconAt(20, 200) -> "notepad"
             [] IconAt(20, 290) -> "settings"
             [] OTHER -> "none"

AppVisible(app) == /\ app_window[app] # NULL
                   /\ W!Visible(table, app_window[app])

(* open_notepad restores a minimized window, the other two only focus it *)
FocusApp(app) ==
  LET win == app_window[app] IN
  /\ table' = IF app = "notepad" THEN W!TaskbarButton(table, win)
              ELSE W!gui_focus_window(table, win)
  /\ UNCHANGED <<app_window, text>>

(* Mutant: the limit on windows is not tested *)
CreateApp_NoTest(app) ==
  /\ table' = W!gui_create_window(table, Shape(app))
  /\ app_window' = [app_window EXCEPT ![app] = W!NewSlot(table)]
  /\ IF app = "notepad" THEN N!OpenNotepad ELSE UNCHANGED text

CreateApp(app) ==
  IF W!CanCreate(table)
  THEN /\ table' = W!gui_create_window(table, Shape(app))
       /\ app_window' = [app_window EXCEPT ![app] = W!NewSlot(table)]
       /\ IF app = "notepad" THEN N!OpenNotepad ELSE UNCHANGED text
  ELSE /\ app_window' = [app_window EXCEPT ![app] = NULL]
       /\ UNCHANGED <<table, text>>

(* Mutant: a window that was hidden is shown again *)
OpenApp_Reuses(app) ==
  LET win == app_window[app] IN
  IF win # NULL
  THEN /\ table' = W!gui_focus_window(W!gui_show_window(table, win), win)
       /\ UNCHANGED <<app_window, text>>
  ELSE CreateApp(app)

OpenApp(app) == IF AppVisible(app) THEN FocusApp(app) ELSE CreateApp(app)

ClickIcons ==
  /\ pc = "icons"
  /\ IF IconApp = "none" THEN UNCHANGED <<table, app_window, text>>
                         ELSE OpenApp(IconApp)
  /\ pc' = "taskbar"
  /\ UNCHANGED <<queue, key, drag, start_menu_open, files, prev_left_button,
                 env, clicked, sampled, unseen>>

(* Taskbar buttons: one for each visible window, in slot order; they do    *)
(* not overlap, so the first one hit is the only one                       *)
ButtonX(win) ==
  70 + 130 * Cardinality({i \in W!InUse(table) : i < win /\ W!Visible(table, i)})

OnButton(win) == /\ W!Visible(table, win)
                 /\ InRect(ButtonX(win), taskbar_y + 6, 120, 28)

ClickTaskbar ==
  /\ pc = "taskbar"
  /\ LET hit == {win \in W!InUse(table) : OnButton(win)} IN
     table' = IF hit = {} THEN table
              ELSE W!TaskbarButton(table, CHOOSE win \in hit : TRUE)
  /\ pc' = "finish"
  /\ UNCHANGED <<queue, key, drag, start_menu_open, app_window, text, files,
                 prev_left_button, env, clicked, sampled, unseen>>

(* Mutant: the button is not remembered *)
Finish_Forgets ==
  /\ pc = "finish"
  /\ clicked' = FALSE /\ sampled' = FALSE
  /\ pc' = "keys"
  /\ UNCHANGED <<queue, key, gui, text, files, env, prev_left_button, unseen>>

(* The button is read again to be remembered; a build may keep the value   *)
(* it read first (build/gui.o does so when that was "up").  The locals     *)
(* end here.                                                               *)
Finish ==
  /\ pc = "finish"
  /\ prev_left_button' \in {sampled, mouse.left}
  /\ clicked' = FALSE /\ sampled' = FALSE
  /\ pc' = "keys"
  /\ UNCHANGED <<queue, key, gui, text, files, env, unseen>>

MainLoop ==
  \/ TakeKey \/ IgnoreKey \/ EditText \/ CreateDocument \/ WriteDocument
  \/ Sample \/ ClickWindows \/ ClickIcons \/ ClickTaskbar \/ Finish

Next == MainLoop \/ KeyArrives \/ MousePacket

Spec == Init /\ [][Next]_vars

(* kernel_main never stops, and interrupts return to it *)
FairSpec == Spec /\ WF_vars(MainLoop)

-----------------------------------------------------------------------------
(* Properties *)

(* Every pointer kept across calls names a slot in use: the program only   *)
(* ever follows pointers to slots that hold a window.                      *)
TypeOK ==
  /\ W!TypeOK /\ N!TypeOK /\ FS!TypeOK
  /\ \A a \in Apps : app_window[a] \in W!InUse(table) \cup {NULL}
  /\ dragging_window \in W!InUse(table) \cup {NULL}
  /\ pc \in {"keys", "key", "save", "sample", "windows", "icons", "taskbar",
             "finish"}

(* Among the visible windows at most the focused one carries the flag that *)
(* the key loop tests, whatever pointers, old or new, windows were focused *)
(* through.                                                                *)
FocusFlagIsFocus ==
  \A win \in W!InUse(table) :
    W!Visible(table, win) /\ "FOCUSED" \in table.windows[win].flags
      => table.focused_window = win

(* A click is never invented nor counted twice: handle_mouse sees a click  *)
(* only when the button was pressed since the last click it saw, however   *)
(* the packets fall between its reads of the button.                       *)
NoGhostClick == [][clicked' => unseen]_clicked

(* A window that was closed stays closed: no pointer kept by an icon, by   *)
(* the drag or by the key loop brings it back.                             *)
Closed == {table.windows[i].id : i \in {j \in W!InUse(table) :
                                            ~W!Visible(table, j)}}
ClosedStaysClosed == [][Closed \subseteq Closed']_table

(* Documents the user saved are kept: a file, once written, keeps its name *)
(* and its content, whatever is typed, saved or refused later.             *)
Document(i) == [name |-> fs.files[i].name, content |-> FS!Content(fs.files[i])]
SavedDocumentsKept ==
  [][\A i \in FS!Existing :
       \/ pc = "save" /\ i \in result.handles
       \/ i \in FS!Existing' /\ Document(i)' = Document(i)]_vars

(* Two documents never share a name, and the next one will not clash       *)
(* either: the counter has moved past every name in use.                   *)
DocumentsDistinct ==
  \A i \in FS!Existing :
    /\ \A j \in FS!Existing : fs.files[i].name = fs.files[j].name => i = j
    /\ fs.files[i].name = FileName(file_counter) => pc = "save" /\ result.ok

(* The main loop, with all of its other work, still takes every key: what  *)
(* counts here is the fairness of K!FairSpec, that no pass, save or click  *)
(* keeps the loop from coming back to the queue.                           *)
TakesEveryKey == K!FairSpec

(* kernel.c:203, "Check if notepad is focused for text input": text only   *)
(* changes by typing while a notepad window has the focus.                 *)
TypingNeedsFocusedNotepad ==
  [][pc = "key" /\ text' # text =>
       /\ table.focused_window # NULL
       /\ table.windows[table.focused_window].app = "notepad"]_vars

(* gui.c:332, "Check title bar (start drag)": the window that is dragged   *)
(* is the one whose title bar was clicked, which has just been focused.    *)
DragsGrabbedWindow ==
  [][pc = "windows" /\ dragging_window' # dragging_window
       => dragging_window' = table'.focused_window]_vars

=============================================================================
