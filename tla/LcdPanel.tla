------------------------------- MODULE LcdPanel -------------------------------
(***************************************************************************)
(* The display settings of lcd_st7789.cpp and the disk menu's rows that    *)
(* change them: which panel, which scaler, which SPI clock, which pixel    *)
(* format; what of them the panel's controller has been told, and what of  *)
(* them NVS remembers over a reboot.                                       *)
(*                                                                         *)
(* Every drawing call runs alone: the menu waits for the blit task (module *)
(* LcdBlit), so a handler is one action.  The controller is a record       *)
(* `glass`; a drawing call is an operator from glass to glass.  A save is  *)
(* a step for each value it stores, and the power may go between any two.  *)
(***************************************************************************)
EXTENDS Integers, Sequences

CONSTANTS MaxBoots,         \* bound on the number of boots
          MaxMenus,         \* bound on how often the menu is opened
          MaxMisses         \* bound on the NVS calls that fail

VARIABLES
  phase,        \* "off", "run", "menu", or a save: "save" to go on running
                \* after it, "reset" to restart
  lcd,          \* the driver's settings
  glass,        \* the controller and the driver's view of it
  nvs,          \* what each key of the "pc98" namespace holds
  step,         \* of a save: which key is stored next
  whole,        \* ghost: nothing has failed in the save under way
  kept,         \* ghost: for each setting, what the user may find it at
  boots, menus, misses  \* counters of these

ghosts == <<whole, kept>>
counters == <<boots, menus, misses>>
store == <<nvs, step, ghosts>>
settingsVars == <<phase, lcd, glass, store, counters>>

ST7789 == 0
ST7796 == 1
PANEL_COUNT == 2
Panels == 0 .. PANEL_COUNT - 1

(* s_panels[].has_rgb444: the ST7796 has no 12-bit format. *)
has_rgb444(p) == p = ST7789

SCALE_AVG == 1
SCALE_1X == 3
SCALE_COUNT == 4
SPI_MHZ_COUNT == 3
SPI_MHZ_DEFAULT == 1

(* Mutant: a line of save_settings() copied and not changed.               *)
SaveOrderNoPanel == <<"scaler", "spiidx", "rgb444", "rgb444">>

(* save_settings() stores them in this order, one nvs_set_u8() each.       *)
SaveOrder == <<"scaler", "spiidx", "rgb444", "panel">>

Keys == {"scaler", "spiidx", "rgb444", "panel"}
SaveDone == 5

(* No such key in the namespace.                                           *)
Unset == -1

(* What the user sees of the driver's settings, by key.                    *)
Shown(l) == [k \in Keys |-> CASE k = "scaler" -> l.scaler
                              [] k = "spiidx" -> l.spiidx
                              [] k = "rgb444" -> l.rgb444
                              [] k = "panel"  -> l.panel]

Values(k) == CASE k = "scaler" -> 0 .. SCALE_COUNT - 1
               [] k = "spiidx" -> 0 .. SPI_MHZ_COUNT - 1
               [] k = "rgb444" -> {0, 1}
               [] k = "panel"  -> Panels

(* The static initial values of the settings. *)
PowerOn == [panel |-> ST7789, scaler |-> SCALE_AVG, spiidx |-> SPI_MHZ_DEFAULT,
            rgb444 |-> 1, s_clear_req |-> 0]

(* s_io, s_band[0], s_img and s_blit_task, when not null; the panel whose   *)
(* init sequence was sent; COLMOD as the controller has it and as the       *)
(* driver believes; whether the last pixels were sent in the controller's   *)
(* format; what the margin around the scaled picture shows, and what was    *)
(* drawn last.  Without an init sequence the controller is sent nothing but *)
(* fills, which are zeros in any format.                                    *)
Dark == [s_io |-> FALSE, s_band |-> FALSE, s_img |-> FALSE, s_blit_task |-> FALSE,
         init |-> ST7789, colmod |-> 0,
         s_panel12 |-> 0, garbled |-> FALSE, margin |-> "black", last |-> "none"]

JustOne(l) == [k \in Keys |-> {Shown(l)[k]}]

SettingsInit ==
  /\ phase = "off"
  /\ lcd = PowerOn
  /\ glass = Dark
  /\ nvs = [k \in Keys |-> Unset]
  /\ step = 1 /\ whole = TRUE
  /\ kept = JustOne(PowerOn)
  /\ boots = 0 /\ menus = 0 /\ misses = 0

-----------------------------------------------------------------------------
(* The drawing calls. *)

set_colmod(g, want12) ==
  IF want12 = g.s_panel12 THEN g
  ELSE [g EXCEPT !.colmod = want12, !.s_panel12 = want12]

CanDraw(g) == g.s_io /\ g.s_band

(* Every fill is the whole panel, in 16 bit. *)
fill_rect(g) ==
  IF ~CanDraw(g) THEN g
  ELSE LET c == set_colmod(g, 0)
       IN  [c EXCEPT !.garbled = c.colmod # 0, !.margin = "black",
                     !.last = "fill"]

(* Mutant: the pixels go out packed for 12 bit, COLMOD is left as it is. *)
PushRectNoColmod(g, use12, what, covers) ==
  IF ~CanDraw(g) THEN g
  ELSE [g EXCEPT !.garbled = g.colmod # use12, !.last = what,
                 !.margin = IF covers THEN what ELSE @]

(* covers: the rectangle reaches into the margin. *)
push_rect(g, use12, what, covers) ==
  IF ~CanDraw(g) THEN g
  ELSE LET c == set_colmod(g, use12)
       IN  [c EXCEPT !.garbled = c.colmod # use12, !.last = what,
                     !.margin = IF covers THEN what ELSE @]

(* Reset and the init sequence for the panel in s_panel; 16 bit. *)
panel_init(g, panel) ==
  [g EXCEPT !.init = panel, !.colmod = 0, !.s_panel12 = 0]

(* do_blit(): the pending wipe, then the picture.  Unscaled it covers the  *)
(* whole panel, scaled it leaves a margin above and below.                 *)
do_blit(g, l) ==
  LET wiped == IF l.s_clear_req = 1 THEN fill_rect(g) ELSE g
  IN  CASE l.scaler = SCALE_1X -> push_rect(wiped, l.rgb444, "1x", TRUE)
         [] l.scaler # SCALE_1X /\ g.s_img ->
              push_rect(wiped, l.rgb444, "box", FALSE)
         [] OTHER -> wiped

(* Menu rows are rendered in the picture's buffer. *)
lcd_menu_line(g, l, what, covers) ==
  IF g.s_img THEN push_rect(g, l.rgb444, what, covers) ELSE g

(* Mutant: the drive list is drawn over the previous screen. *)
DrawDrivesNoClear(g, l) == lcd_menu_line(g, l, "menu", FALSE)

(* draw_drives(): clear, then the rows, all inside the picture's area. *)
draw_drives(g, l) == lcd_menu_line(fill_rect(g), l, "menu", FALSE)

(* The ROM browser's header is on row 0, in the margin. *)
draw_roms(g, l) == lcd_menu_line(fill_rect(g), l, "header", TRUE)

-----------------------------------------------------------------------------
(* Boot: lcd_init() with lcd_load_nvs(), then emu_task loads the scaler.   *)

(* A key that is not there leaves the static value. *)
Loaded == [k \in Keys |-> IF nvs[k] = Unset THEN Shown(PowerOn)[k] ELSE nvs[k]]

lcd_load_nvs ==
  [PowerOn EXCEPT
     !.spiidx = Loaded["spiidx"], !.panel = Loaded["panel"],
     !.rgb444 = IF has_rgb444(Loaded["panel"]) THEN Loaded["rgb444"] ELSE 0]

lcd_set_scale_mode(l, m) ==
  [l EXCEPT !.s_clear_req = IF m # l.scaler THEN 1 ELSE @, !.scaler = m]

LoadScaler(l) == lcd_set_scale_mode(l, Loaded["scaler"])

(* got: which of the things it asks for lcd_init() is given.  Without the  *)
(* IO and both bands it gives up before the panel and the task.            *)
lcd_init(l, got) ==
  LET io == [Dark EXCEPT !.s_io = TRUE, !.s_band = "band0" \in got]
  IN  CASE "io" \notin got -> Dark
        [] "io" \in got /\ ~({"band0", "band1"} \subseteq got) -> io
        [] OTHER -> fill_rect(panel_init(
                      [io EXCEPT !.s_img = "img" \in got,
                                 !.s_blit_task = "task" \in got], l.panel))

(* app_main finds the NVS partition damaged and erases it. *)
EraseNvs ==
  /\ phase = "off" /\ boots < MaxBoots
  /\ nvs' = [k \in Keys |-> Unset]
  /\ kept' = JustOne(PowerOn)
  /\ UNCHANGED <<phase, lcd, glass, step, whole, counters>>

(* The user has seen what came up, and that is what is stored.  12 bit on  *)
(* a panel without it is the one choice that is stored and not shown.      *)
Boot ==
  /\ phase = "off" /\ boots < MaxBoots
  /\ \E got \in SUBSET {"io", "band0", "band1", "img", "task"} :
       glass' = lcd_init(lcd_load_nvs, got)
  /\ lcd' = LoadScaler(lcd_load_nvs)
  /\ kept' = [JustOne(lcd') EXCEPT
                !["rgb444"] = IF has_rgb444(lcd'.panel) THEN @ ELSE kept["rgb444"]]
  /\ phase' = "run"
  /\ boots' = boots + 1
  /\ UNCHANGED <<nvs, step, whole, menus, misses>>

(* lcd_blit() does nothing without the task. *)
BlitIfInited ==
  IF glass.s_blit_task
  THEN glass' = do_blit(glass, lcd) /\ lcd' = [lcd EXCEPT !.s_clear_req = 0]
  ELSE UNCHANGED <<glass, lcd>>

(* A frame is blitted while the emulator runs. *)
Blit ==
  /\ phase = "run"
  /\ BlitIfInited
  /\ UNCHANGED <<phase, store, counters>>

-----------------------------------------------------------------------------
(* The disk menu.  Each key ends in draw_drives().                         *)

OpenMenu ==
  /\ phase = "run" /\ menus < MaxMenus
  /\ phase' = "menu"
  /\ menus' = menus + 1
  /\ glass' = draw_drives(glass, lcd)
  /\ UNCHANGED <<lcd, store, boots, misses>>

(* One step along a row of n values: RET steps by ret and wraps, an arrow  *)
(* stops at the end, where it sets the same value again.                   *)
Stepped(i, n, ret) ==
  {(i + n + ret) % n, IF i = 0 THEN 0 ELSE i - 1, IF i = n - 1 THEN i ELSE i + 1}

Browsing == glass.last = "header"

InMenu == phase = "menu" /\ UNCHANGED <<phase, store, counters>>

(* Row 5: panel and scaler in one cycle.  The panel is only noted. *)
AdjustDisplay ==
  /\ InMenu /\ ~Browsing
  /\ \E idx \in Stepped(lcd.panel * SCALE_COUNT + lcd.scaler,
                        PANEL_COUNT * SCALE_COUNT, 1) :
       LET l == lcd_set_scale_mode([lcd EXCEPT !.panel = idx \div SCALE_COUNT],
                                   idx % SCALE_COUNT)
       IN  lcd' = l /\ glass' = draw_drives(glass, l)

(* The IO is deleted and made anew; if that fails s_io stays null. *)
lcd_apply_spi_clock(g, l, ok) ==
  IF ok THEN panel_init(g, l.panel)
        ELSE [g EXCEPT !.s_io = FALSE]

(* Row 6: SPI clock.  The index runs against the direction. *)
AdjustSpi ==
  /\ InMenu /\ ~Browsing
  /\ \E i \in Stepped(lcd.spiidx, SPI_MHZ_COUNT, -1), ok \in BOOLEAN :
       LET l == [lcd EXCEPT !.spiidx = i,
                            !.s_clear_req = IF glass.s_io /\ ok THEN 1 ELSE @]
           g == IF glass.s_io THEN lcd_apply_spi_clock(glass, l, ok) ELSE glass
       IN  lcd' = l /\ glass' = draw_drives(g, l)

(* Row 7: pixel format.  Refused by the panel noted in s_panel. *)
AdjustRgb444 ==
  /\ InMenu /\ ~Browsing
  /\ LET l == IF has_rgb444(lcd.panel)
              THEN [lcd EXCEPT !.rgb444 = 1 - @, !.s_clear_req = 1] ELSE lcd
     IN  lcd' = l /\ glass' = draw_drives(glass, l)

BrowseRom ==
  /\ InMenu
  /\ glass' = draw_roms(glass, lcd)
  /\ UNCHANGED lcd

(* Any key that leaves the browser, or only moves the cursor. *)
Redraw ==
  /\ InMenu
  /\ glass' = draw_drives(glass, lcd)
  /\ UNCHANGED lcd

(* A call of the NVS library succeeds or not. *)
Call(ok) ==
  /\ ok \/ misses < MaxMisses
  /\ misses' = IF ok THEN misses ELSE misses + 1

(* save_settings(): ESC on the drive list, and row 10 before it restarts.  *)
(* nvs_open() may fail: then nothing is stored, and nobody is told.        *)
save_settings(then) ==
  /\ phase = "menu" /\ ~Browsing
  /\ phase' = then
  /\ \E opened \in BOOLEAN :
       /\ Call(opened)
       /\ step' = IF opened THEN 1 ELSE SaveDone
       /\ whole' = opened
       /\ kept' = IF opened THEN [k \in Keys |-> kept[k] \cup {Shown(lcd)[k]}]
                            ELSE kept
  /\ UNCHANGED <<lcd, glass, nvs, boots, menus>>

CloseMenu == save_settings("save")
Reset == save_settings("reset")

Saving == phase \in {"save", "reset"}

(* One key.  Its value may not reach the flash: nobody looks at the result, *)
(* and what waits for nvs_commit() goes with the power.                    *)
nvs_set_u8 ==
  /\ Saving /\ step # SaveDone
  /\ \E ok \in BOOLEAN :
       /\ Call(ok)
       /\ nvs' = IF ok THEN LET k == SaveOrder[step]
                            IN  [nvs EXCEPT ![k] = Shown(lcd)[k]] ELSE nvs
       /\ whole' = (whole /\ ok)
  /\ step' = step + 1
  /\ UNCHANGED <<phase, lcd, glass, kept, boots, menus>>

(* The save returns: to the loop, which blits the frame again, or into     *)
(* esp_restart().                                                          *)
SaveReturns ==
  /\ Saving /\ step = SaveDone
  /\ step' = 1 /\ whole' = TRUE
  /\ kept' = IF whole THEN JustOne(lcd) ELSE kept
  /\ \/ phase = "save" /\ phase' = "run" /\ BlitIfInited
     \/ phase = "reset" /\ phase' = "off" /\ lcd' = PowerOn /\ glass' = Dark
  /\ UNCHANGED <<nvs, counters>>

(* The power goes: what was not stored is lost. *)
PowerCut ==
  /\ phase # "off"
  /\ phase' = "off"
  /\ step' = 1 /\ whole' = TRUE
  /\ lcd' = PowerOn /\ glass' = Dark
  /\ UNCHANGED <<nvs, kept, counters>>

SettingsNext ==
  \/ EraseNvs \/ Boot \/ Blit \/ OpenMenu \/ AdjustDisplay \/ AdjustSpi
  \/ AdjustRgb444 \/ BrowseRom \/ Redraw \/ CloseMenu \/ Reset
  \/ nvs_set_u8 \/ SaveReturns \/ PowerCut

SettingsSpec == SettingsInit /\ [][SettingsNext]_settingsVars

-----------------------------------------------------------------------------
Lcds == [panel : Panels, scaler : 0 .. SCALE_COUNT - 1,
         spiidx : 0 .. SPI_MHZ_COUNT - 1, rgb444 : {0, 1}, s_clear_req : {0, 1}]

Glasses == [s_io : BOOLEAN, s_band : BOOLEAN, s_img : BOOLEAN,
            s_blit_task : BOOLEAN, init : Panels,
            colmod : {0, 1}, s_panel12 : {0, 1}, garbled : BOOLEAN,
            margin : {"black", "header", "1x"},
            last : {"none", "fill", "menu", "header", "1x", "box"}]

(* Types of the settings, the controller and the stored keys. *)
SettingsTypeOK ==
  /\ phase \in {"off", "run", "menu", "save", "reset"}
  /\ lcd \in Lcds
  /\ glass \in Glasses
  /\ nvs \in [Keys -> Int] /\ \A k \in Keys : nvs[k] \in Values(k) \cup {Unset}
  /\ step \in 1 .. SaveDone /\ whole \in BOOLEAN
  /\ boots \in 0 .. MaxBoots /\ menus \in 0 .. MaxMenus
  /\ misses \in 0 .. MaxMisses

(* What reaches the panel is in the format its controller was last told,   *)
(* whatever the order of fills, menu rows, frames, format changes and      *)
(* re-initialisations at a new clock (set_colmod sends COLMOD only when    *)
(* s_panel12 says it must).                                                *)
PixelsDecoded == ~glass.garbled

(* No frame leaves pixels of the menu, or of an unscaled picture, in the   *)
(* margin above and below the scaled one (s_clear_req, lcd_menu_clear).    *)
MarginBlack == phase = "run" /\ glass.last = "box" => glass.margin = "black"

(* After a save that went through, a boot brings up exactly what the menu  *)
(* showed.  After one that was cut short by the power, or in which a call  *)
(* failed, each setting is either as the user last found it or as the menu *)
(* showed it in one of the saves since, whatever became of the others; and *)
(* no such mixture starts a panel in a format it has not got.              *)
(* (save_settings, lcd_load_nvs, emu_task.)                                *)
SettingsSurvive ==
  [][Boot =>
       /\ \A k \in Keys \ {"rgb444"} : Shown(lcd')[k] \in kept[k]
       /\ IF has_rgb444(lcd'.panel) THEN lcd'.rgb444 \in kept["rgb444"]
                                    ELSE lcd'.rgb444 = 0]_settingsVars

(* What lcd_st7789.cpp says of the formats: 12 bit is refused on the       *)
(* ST7796, here for one that was told to be one.  It fails: the check asks *)
(* the panel noted for the next boot, the clock row initialises as it.     *)
Refuses12On7796 ==
  CanDraw(glass) /\ glass.init = ST7796 => glass.colmod = 0

=============================================================================
