---------------------------- MODULE Presentation ----------------------------
(***************************************************************************)
(* The instance's appearance: the settings row with the selected theme,    *)
(* the custom themes, the uploaded fonts and the uploaded icons that       *)
(* themes use as brand images (internal/adapters/sqlite/presentation.go    *)
(* and icons.go, application/presentation, the theme pages of the UI).     *)
(*                                                                         *)
(* Every store method is one transaction on the only connection, so it is  *)
(* one action; IconStore.Save without data reads the picture before its    *)
(* UPDATE and is two.  A Save command is composed from a page that read    *)
(* the settings first and the theme catalog later, carries both            *)
(* revisions, and may reach the store late, never or more than once: the   *)
(* editor repeats a command whose outcome it does not know under the same  *)
(* id.  Catalog revisions are left out: they are constants of a release,   *)
(* and a page of another one is refused without effect.  Colour modes,     *)
(* colours and names of themes are one abstract "text".                    *)
(***************************************************************************)
EXTENDS Integers, Sequences, FiniteSets, FiniteSetsExt

CONSTANTS
  Themes,          \* ids of custom themes, made up by the editors
  Presets,         \* keys of the built-in themes
  Fonts,           \* ids of uploaded fonts, made up by the editors
  Icons,           \* ids of uploaded icons, random and never reused
  Services,        \* services whose edit may name an icon
  CommandIds,      \* command ids of Save
  Texts,           \* contents of a theme other than fonts and brand images
  Names, Pictures, \* names and bytes of icons
  Default,         \* the preset that migration 13 selects
  Nil,             \* no row, no image, the bundled font
  Gone,            \* an icon that was deleted
  Keep,            \* a brand reference a draft leaves as it is
  Drafts,          \* the drafts that editors save
  MaxThemes, MaxFonts, MaxFontStorage,
  MaxRevision,     \* bound on the settings revision
  MaxEdits,        \* bound on the revision of a theme
  MaxCommands      \* bound on Save commands sent

ASSUME PresentationAssumptions ==
  /\ Default \in Presets
  /\ Nil \notin Themes \cup Fonts \cup Icons \cup Presets
  /\ Themes \cap Presets = {}
  /\ Keep \notin Icons \cup {Nil}
  /\ MaxThemes \in Nat /\ MaxFonts \in Nat /\ MaxFontStorage \in Nat
  /\ MaxRevision \in Nat /\ MaxEdits \in Nat \ {0} /\ MaxCommands \in Nat

VARIABLES
  settings,    \* the presentation_settings row
  themes,      \* presentation_themes
  themeFonts,  \* presentation_theme_fonts: <<theme, role, font>>
  fonts,       \* presentation_fonts: the byte length, 0 when there is no row
  icons,       \* uploaded_icons
  edits,       \* service_edits.icon_ref
  sent,        \* Save commands sent so far, each one may still arrive
  renames,     \* icon renames between their read and their UPDATE
  log          \* the committed Saves, in order

vars == <<settings, themes, themeFonts, fonts, icons, edits, sent,
          renames, log>>

-----------------------------------------------------------------------------
(* Data. *)

FontRoles == {"title", "body"}

BrandRoles == {"icon", "logo"}

Definitions == [text: Texts, title: Fonts \cup {Nil}, body: Fonts \cup {Nil}]

Brands == [BrandRoles -> Icons \cup {Nil}]

\* A stored theme; creation stands for its creation digest.
ThemeRows == [definition: Definitions, brand: Brands, revision: 1..MaxEdits,
              creation: Definitions \cup Themes]

\* The digest of an icon covers exactly its name and its bytes.
IconRows == [name: Names, data: Pictures]

\* The three forms of a Save's selection; a draft is part of the second.
Selections ==
  [kind: {"builtin"}, key: Presets]
  \cup [kind: {"custom"}, theme: Themes, expected: 1..MaxEdits,
        draft: Drafts \cup {Nil}]
  \cup [kind: {"newCustom"}, theme: Themes, draft: Drafts]

Commands == [id: CommandIds, expected: 0..MaxRevision, selection: Selections]

Receipts == [id: CommandIds, revision: 1..MaxRevision,
             selected: Themes \cup Presets, theme: 0..MaxEdits]

\* Drafts are drafts, and what stands for no row or a deleted one is no row.
ASSUME DataAssumptions ==
  /\ Drafts \subseteq [definition: Definitions,
                        brand: [BrandRoles -> Icons \cup {Nil, Keep}]]
  /\ Nil \notin Drafts \cup Commands \cup ThemeRows \cup IconRows
  /\ Gone \notin ThemeRows \cup IconRows

Stored(table) == {id \in DOMAIN table : table[id] \notin {Nil, Gone}}

\* The selection, the empty receipt memory and revision 0 of migration 13.
Init ==
  /\ settings = [selected |-> Default, revision |-> 0, last |-> Nil,
                 receipt |-> Nil]
  /\ themes = [t \in Themes |-> Nil]
  /\ themeFonts = {}
  /\ fonts = [f \in Fonts |-> 0]
  /\ icons = [i \in Icons |-> Nil]
  /\ edits = [s \in Services |-> Nil]
  /\ sent = {}
  /\ renames = {}
  /\ log = <<>>

-----------------------------------------------------------------------------
(* Helpers of the store. *)

\* Every uploaded font that a definition names is stored.
checkFonts(d) == \A role \in FontRoles : d[role] # Nil => fonts[d[role]] > 0

\* Every image that a brand names is stored.
checkBrand(brand) ==
  \A role \in BrandRoles : brand[role] # Nil => brand[role] \in Stored(icons)

\* A draft's definition is written without its reference rows.
referencesFault(t, d) == themeFonts

\* The rows of presentation_theme_fonts after a theme is written.
references(t, d) ==
  {row \in themeFonts : row[1] # t}
  \cup {<<t, role, d[role]>> : role \in {r \in FontRoles : d[r] # Nil}}

\* Some theme shows the icon as its brand.
Branded(i) ==
  \E t \in Stored(themes), role \in BrandRoles : themes[t].brand[role] = i

\* What State, the read behind every page, needs in order to succeed.
State ==
  settings.selected \in Themes =>
    /\ settings.selected \in Stored(themes)
    /\ checkFonts(themes[settings.selected].definition)

\* A draft's brand: nil pointers keep what the theme has.
DraftBrand(draft, brand) ==
  [role \in BrandRoles |->
     IF draft.brand[role] = Keep THEN brand[role] ELSE draft.brand[role]]

\* A new theme has nothing to keep; a missing logo is the icon.
NewBrand(draft) ==
  LET icon == IF draft.brand["icon"] = Keep THEN Nil ELSE draft.brand["icon"]
  IN [role \in BrandRoles |->
        IF draft.brand[role] = Keep THEN icon ELSE draft.brand[role]]

-----------------------------------------------------------------------------
(* Save. *)

\* themesPage reads the settings in one request and the catalog in a later one:
\* a command is based on some earlier settings revision and on the theme as it
\* is when the catalog is read.
SendSave(id, expected, selection) ==
  /\ Cardinality(sent) < MaxCommands
  /\ selection.kind = "custom" =>
       /\ selection.theme \in Stored(themes)
       /\ selection.expected = themes[selection.theme].revision
  /\ sent' = sent \cup {[id |-> id, expected |-> expected,
                         selection |-> selection]}
  /\ UNCHANGED <<settings, themes, themeFonts, fonts, icons, edits,
                 renames, log>>

\* The theme row that a command writes, for the two forms that write one.
Written(c) ==
  LET s == c.selection IN
  IF s.kind = "newCustom"
  THEN [definition |-> s.draft.definition, brand |-> NewBrand(s.draft),
        revision |-> 1, creation |-> s.draft.definition]
  ELSE [themes[s.theme] EXCEPT
          !.definition = s.draft.definition,
          !.brand = DraftBrand(s.draft, @),
          !.revision = @ + 1]

\* Any settings revision that was current once will do.
CurrentSettingsFault(c) == settings.revision >= c.expected

\* The page was loaded at the current settings revision.
CurrentSettings(c) == settings.revision = c.expected

\* Why the transaction of Save refuses the command, "ok" when it does not;
\* the command is not the last one committed.
Refusal(c) ==
  LET s == c.selection
      Checked(row) == checkBrand(row.brand) /\ checkFonts(row.definition)
  IN
  CASE ~CurrentSettings(c) -> "settings"
    [] CurrentSettings(c) /\ s.kind = "builtin" -> "ok"
    [] CurrentSettings(c) /\ s.kind = "custom" ->
         IF s.theme \notin Stored(themes) THEN "missing"
         ELSE IF themes[s.theme].revision # s.expected THEN "theme"
         ELSE IF s.draft = Nil
         THEN IF checkFonts(themes[s.theme].definition) THEN "ok" ELSE "invalid"
         ELSE IF Checked(Written(c)) THEN "ok" ELSE "invalid"
    [] CurrentSettings(c) /\ s.kind = "newCustom" ->
         IF ~Checked(Written(c)) THEN "invalid"
         ELSE IF s.theme \in Stored(themes) THEN "theme"
         ELSE IF Cardinality(Stored(themes)) >= MaxThemes THEN "limit"
         ELSE "ok"

\* The command writes a theme row.
Writes(c) == c.selection.kind # "builtin" /\ c.selection.draft # Nil

Receipt(c) ==
  LET s == c.selection IN
  [id |-> c.id, revision |-> settings.revision + 1,
   selected |-> IF s.kind = "builtin" THEN s.key ELSE s.theme,
   theme |-> IF s.kind = "builtin" THEN 0
             ELSE IF Writes(c) THEN Written(c).revision
             ELSE themes[s.theme].revision]

\* The command has the id of the last one committed.
Replayed(c) == settings.last # Nil /\ settings.last.id = c.id

\* Only the id of the command is compared with the last one.
OutcomeFault(c) ==
  IF Replayed(c)
  THEN [refusal |-> "ok", receipt |-> settings.receipt]
  ELSE [refusal |-> Refusal(c), receipt |-> Nil]

\* What Save answers to the command now: a replay of the last command gets
\* its receipt again, another payload under its id is a conflict, and any
\* other command is refused or committed.
Outcome(c) ==
  IF Replayed(c)
  THEN IF settings.last = c
       THEN [refusal |-> "ok", receipt |-> settings.receipt]
       ELSE [refusal |-> "command", receipt |-> Nil]
  ELSE [refusal |-> Refusal(c), receipt |-> Nil]

\* Save commits; every other answer leaves the database as it is.
Save(c) ==
  /\ ~Replayed(c)
  /\ Outcome(c).refusal = "ok"
  /\ settings.revision < MaxRevision
  /\ Writes(c) => Written(c).revision <= MaxEdits
  /\ IF Writes(c)
     THEN /\ themes' = [themes EXCEPT ![c.selection.theme] = Written(c)]
          /\ themeFonts' = references(c.selection.theme,
                                      c.selection.draft.definition)
     ELSE UNCHANGED <<themes, themeFonts>>
  /\ settings' = [selected |-> Receipt(c).selected,
                  revision |-> settings.revision + 1,
                  last |-> c, receipt |-> Receipt(c)]
  /\ log' = Append(log, [command |-> c, receipt |-> Receipt(c)])
  /\ UNCHANGED <<fonts, icons, edits, sent, renames>>

-----------------------------------------------------------------------------
(* The theme catalog. *)

\* CreateTheme: only an id that has no row inserts one; a row with the same
\* creation digest is returned as it is now, another one is a conflict.
InsertTheme(t, d, brand, creation) ==
  /\ themes[t] = Nil
  /\ checkFonts(d)
  /\ checkBrand(brand)
  /\ Cardinality(Stored(themes)) < MaxThemes
  /\ themes' = [themes EXCEPT ![t] =
                  [definition |-> d, brand |-> brand, revision |-> 1,
                   creation |-> creation]]
  /\ themeFonts' = references(t, d)
  /\ UNCHANGED <<settings, fonts, icons, edits, sent, renames,
                 log>>

CreateTheme(t, draft) ==
  InsertTheme(t, draft.definition, NewBrand(draft), draft.definition)

\* copyFrom with the source's current revision: its definition and brand.
CopyTheme(t, from) ==
  /\ from \in Stored(themes)
  /\ InsertTheme(t, themes[from].definition, themes[from].brand, from)

\* RenameTheme under the expected revision; the name is part of the text.
RenameTheme(t, text) ==
  /\ t \in Stored(themes)
  /\ themes[t].revision < MaxEdits
  /\ themes' = [themes EXCEPT ![t].definition.text = text,
                              ![t].revision = @ + 1]
  /\ UNCHANGED <<settings, themeFonts, fonts, icons, edits, sent,
                 renames, log>>

\* DeleteTheme; the font references go with the row (ON DELETE CASCADE).
DeletableTheme(t) == t \in Stored(themes) /\ settings.selected # t

DeleteTheme(t) ==
  /\ DeletableTheme(t)
  /\ themes' = [themes EXCEPT ![t] = Nil]
  /\ themeFonts' = {row \in themeFonts : row[1] # t}
  /\ UNCHANGED <<settings, fonts, icons, edits, sent, renames,
                 log>>

-----------------------------------------------------------------------------
(* Fonts and icons. *)

CreateFont(f, length) ==
  /\ fonts[f] = 0
  /\ Cardinality({g \in Fonts : fonts[g] > 0}) < MaxFonts
  /\ MapThenSumSet(LAMBDA g : fonts[g], Fonts) + length <= MaxFontStorage
  /\ fonts' = [fonts EXCEPT ![f] = length]
  /\ UNCHANGED <<settings, themes, themeFonts, icons, edits, sent,
                 renames, log>>

DeleteFont(f) ==
  /\ fonts[f] > 0
  /\ \A row \in themeFonts : row[3] # f
  /\ fonts' = [fonts EXCEPT ![f] = 0]
  /\ UNCHANGED <<settings, themes, themeFonts, icons, edits, sent,
                 renames, log>>

UploadIcon(i, row) ==
  /\ icons[i] = Nil
  /\ icons' = [icons EXCEPT ![i] = row]
  /\ UNCHANGED <<settings, themes, themeFonts, fonts, edits, sent,
                 renames, log>>

\* The rename compares the bytes it has read before, not the stored ones.
UpdatableFault(i, revision, data) == icons[i] = revision

\* The UPDATE of IconStore.Save applies to this row.
Updatable(i, revision, data) ==
  /\ icons[i] = revision
  /\ data = icons[i].data \/ ~Branded(i)

\* Save with new bytes; the revision is the digest the client has read.
ReplaceIcon(i, row) ==
  /\ i \in Stored(icons)
  /\ Updatable(i, icons[i], row.data)
  /\ icons' = [icons EXCEPT ![i] = row]
  /\ UNCHANGED <<settings, themes, themeFonts, fonts, edits, sent,
                 renames, log>>

\* Save without bytes reads them first, under no transaction.
RenameIconRead(i, name, revision) ==
  /\ i \in Stored(icons)
  /\ \A r \in renames : r.icon # i
  /\ renames' = renames \cup {[icon |-> i, name |-> name,
                               revision |-> revision, data |-> icons[i].data]}
  /\ UNCHANGED <<settings, themes, themeFonts, fonts, icons, edits,
                 sent, log>>

RenameIconWrite(r) ==
  /\ renames' = renames \ {r}
  /\ icons' = IF Updatable(r.icon, r.revision, r.data)
              THEN [icons EXCEPT ![r.icon] = [name |-> r.name, data |-> r.data]]
              ELSE icons
  /\ UNCHANGED <<settings, themes, themeFonts, fonts, edits, sent,
                 log>>

DeleteIcon(i) ==
  /\ i \in Stored(icons)
  /\ \A s \in Services : edits[s] # i
  /\ ~Branded(i)
  /\ icons' = [icons EXCEPT ![i] = Gone]
  /\ UNCHANGED <<settings, themes, themeFonts, fonts, edits, sent,
                 renames, log>>

\* SaveEdit checks and stores the reference in one transaction.
SaveEdit(s, i) ==
  /\ i = Nil \/ i \in Stored(icons)
  /\ edits' = [edits EXCEPT ![s] = i]
  /\ UNCHANGED <<settings, themes, themeFonts, fonts, icons, sent,
                 renames, log>>

-----------------------------------------------------------------------------
Next ==
  \/ \E id \in CommandIds, expected \in 0..settings.revision, s \in Selections :
       SendSave(id, expected, s)
  \/ \E c \in sent : Save(c)
  \/ \E t \in Themes, draft \in Drafts : CreateTheme(t, draft)
  \/ \E t, from \in Themes : CopyTheme(t, from)
  \/ \E t \in Themes, text \in Texts : RenameTheme(t, text)
  \/ \E t \in Themes : DeleteTheme(t)
  \/ \E f \in Fonts, length \in 1..MaxFontStorage : CreateFont(f, length)
  \/ \E f \in Fonts : DeleteFont(f)
  \/ \E i \in Icons, row \in IconRows : UploadIcon(i, row)
  \/ \E i \in Icons, row \in IconRows : ReplaceIcon(i, row)
  \/ \E i \in Icons, name \in Names, revision \in IconRows :
       RenameIconRead(i, name, revision)
  \/ \E r \in renames : RenameIconWrite(r)
  \/ \E i \in Icons : DeleteIcon(i)
  \/ \E s \in Services, i \in Icons \cup {Nil} : SaveEdit(s, i)

Spec == Init /\ [][Next]_vars

-----------------------------------------------------------------------------
(* Properties. *)

TypeOK ==
  /\ settings \in [selected: Themes \cup Presets, revision: 0..MaxRevision,
                   last: Commands \cup {Nil}, receipt: Receipts \cup {Nil}]
  /\ themes \in [Themes -> ThemeRows \cup {Nil}]
  /\ themeFonts \subseteq Themes \X FontRoles \X Fonts
  /\ fonts \in [Fonts -> 0..MaxFontStorage]
  /\ icons \in [Icons -> IconRows \cup {Nil, Gone}]
  /\ edits \in [Services -> Icons \cup {Nil}]
  /\ sent \subseteq Commands
  /\ renames \subseteq [icon: Icons, name: Names, revision: IconRows,
                        data: Pictures]
  /\ log \in Seq([command: Commands, receipt: Receipts])

\* Every reference resolves, whatever saves, deletions and uploads interleave:
\* State finds the selected theme and its fonts, the reference rows that guard
\* fonts agree with the definitions they stand for, and no theme or service
\* edit shows an icon that is gone.  Otherwise every page of the instance
\* would fall back to the recovery appearance.
ReferencesResolve ==
  /\ State
  /\ \A t \in Stored(themes) :
       /\ checkFonts(themes[t].definition)
       /\ checkBrand(themes[t].brand)
  /\ \A s \in Services : edits[s] # Nil => edits[s] \in Stored(icons)

\* A Save command takes effect at most once, however often and however late
\* it is delivered, although the store remembers only the last command.
AppliedOnce ==
  \A m, n \in 1..Len(log) : log[m].command = log[n].command => m = n

\* What a Save is told is so: a receipt is the one its own commit produced,
\* and a command that did commit is refused only when another commit came
\* after it, so an immediate retry always learns of the success.
RepliesTruthful ==
  \A c \in sent :
    /\ Replayed(c) /\ Outcome(c).refusal = "ok" =>
         \E n \in 1..Len(log) : /\ log[n].command = c
                                /\ log[n].receipt = Outcome(c).receipt
    /\ Outcome(c).refusal # "ok" =>
         \A n \in 1..Len(log) : log[n].command = c => n < Len(log)

\* The picture behind a theme's brand does not change and does not vanish
\* while the theme shows it, also when a rename that read the old bytes is
\* still on its way.
BrandPictureStable ==
  [][\A i \in Icons :
       Branded(i) /\ Branded(i)' => icons'[i].data = icons[i].data]_vars

=============================================================================
