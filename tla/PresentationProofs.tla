------------------------- MODULE PresentationProofs -------------------------
(***************************************************************************)
(* Proofs about Presentation, for every set of themes, fonts, icons,       *)
(* service edits and drafts and every order of commands.                   *)
(*                                                                         *)
(* Two arguments carry them.  References: what a theme names is stored, and *)
(* a theme's fonts have rows in presentation_theme_fonts, the only thing    *)
(* DeleteFont looks at.  Commands: the n-th commit was sent for settings    *)
(* revision n - 1 and is the one the settings row remembers while it is     *)
(* the last.                                                               *)
(***************************************************************************)
EXTENDS Presentation, TLAPS

\* Every uploaded font of a stored theme has its reference row.
FontRows ==
  \A t \in Stored(themes), role \in FontRoles :
    themes[t].definition[role] # Nil =>
      <<t, role, themes[t].definition[role]>> \in themeFonts

\* A font that is referenced is stored.
FontsKept == \A row \in themeFonts : fonts[row[3]] > 0

BrandsKept == \A t \in Stored(themes) : checkBrand(themes[t].brand)

EditsKept == \A s \in Services : edits[s] # Nil => edits[s] \in Stored(icons)

SelectedKept == settings.selected \in Themes => settings.selected \in Stored(themes)

\* The settings row and the history of commits.
Logged ==
  /\ settings.revision = Len(log)
  /\ \A n \in 1..Len(log) : log[n].command.expected = n - 1
  /\ Len(log) = 0 => settings.last = Nil
  /\ Len(log) > 0 => /\ settings.last = log[Len(log)].command
                     /\ settings.receipt = log[Len(log)].receipt

PInv ==
  /\ TypeOK /\ FontRows /\ FontsKept /\ BrandsKept /\ EditsKept
  /\ SelectedKept /\ Logged

-----------------------------------------------------------------------------
(* Helpers of the store. *)

LEMMA StoredThemes ==
  ASSUME TypeOK, NEW t
  PROVE  t \in Stored(themes) <=> t \in Themes /\ themes[t] \in ThemeRows
  BY DataAssumptions DEF TypeOK, Stored

LEMMA StoredIcons ==
  ASSUME TypeOK, NEW i
  PROVE  i \in Stored(icons) <=> i \in Icons /\ icons[i] \in IconRows
  BY DataAssumptions DEF TypeOK, Stored

LEMMA DraftFields ==
  ASSUME NEW draft \in Drafts
  PROVE  /\ draft.definition \in Definitions
         /\ draft.brand \in [BrandRoles -> Icons \cup {Nil, Keep}]
         /\ NewBrand(draft) \in Brands
         /\ \A brand \in Brands : DraftBrand(draft, brand) \in Brands
<1>1. /\ draft.definition \in Definitions
      /\ draft.brand \in [BrandRoles -> Icons \cup {Nil, Keep}]
  BY DataAssumptions
<1>2. NewBrand(draft) \in Brands
  BY <1>1 DEF NewBrand, Brands, BrandRoles
<1>3. ASSUME NEW brand \in Brands PROVE DraftBrand(draft, brand) \in Brands
  BY <1>1 DEF DraftBrand, Brands, BrandRoles
<1> QED
  BY <1>1, <1>2, <1>3

\* A font of a definition is a font or the bundled one.
LEMMA DefinitionFonts ==
  ASSUME NEW d \in Definitions, NEW role \in FontRoles
  PROVE  d[role] \in Fonts \cup {Nil}
<1>1. CASE role = "title"
  BY <1>1 DEF Definitions
<1>2. CASE role = "body"
  BY <1>2 DEF Definitions
<1> QED
  BY <1>1, <1>2 DEF FontRoles

\* Reference rows are rows of the table.
LEMMA ReferencesTyped ==
  ASSUME TypeOK, NEW t \in Themes, NEW d \in Definitions
  PROVE  references(t, d) \subseteq Themes \X FontRoles \X Fonts
<1>1. \A role \in FontRoles : d[role] # Nil => d[role] \in Fonts
  BY DefinitionFonts
<1> QED
  BY <1>1 DEF references, TypeOK

-----------------------------------------------------------------------------
(* Writing a theme row: Save, CreateTheme and copying share it. *)

ThemeWritten(t, row) ==
  /\ themes' = [themes EXCEPT ![t] = row]
  /\ themeFonts' = references(t, row.definition)
  /\ UNCHANGED <<fonts, icons>>

LEMMA WriteKeeps ==
  ASSUME PInv, NEW t \in Themes, NEW row \in ThemeRows, ThemeWritten(t, row),
         checkFonts(row.definition), checkBrand(row.brand)
  PROVE  /\ themes' \in [Themes -> ThemeRows \cup {Nil}]
         /\ themeFonts' \subseteq Themes \X FontRoles \X Fonts
         /\ Stored(themes)' = Stored(themes) \cup {t}
         /\ FontRows' /\ FontsKept' /\ BrandsKept'
<1>1. themes \in [Themes -> ThemeRows \cup {Nil}]
  BY DEF PInv, TypeOK
<1>2. /\ themes' \in [Themes -> ThemeRows \cup {Nil}] /\ themes'[t] = row
      /\ \A u \in Themes \ {t} : themes'[u] = themes[u]
  BY <1>1 DEF ThemeWritten
<1>3. row.definition \in Definitions
  BY DEF ThemeRows
<1>4. themeFonts' \subseteq Themes \X FontRoles \X Fonts
  BY <1>3, ReferencesTyped DEF ThemeWritten, PInv
<1>5. Stored(themes)' = Stored(themes) \cup {t}
  BY <1>1, <1>2, DataAssumptions DEF Stored
<1>6. Stored(themes) \subseteq Themes
  BY <1>1 DEF Stored
<1>7. FontRows'
  <2> SUFFICES ASSUME NEW u \in Stored(themes)', NEW role \in FontRoles,
                      themes'[u].definition[role] # Nil
               PROVE  <<u, role, themes'[u].definition[role]>> \in themeFonts'
    BY DEF FontRows
  <2>1. CASE u = t
    BY <1>2, <2>1 DEF ThemeWritten, references
  <2>2. CASE u # t
    <3>1. themes'[u] = themes[u] /\ u \in Stored(themes)
      BY <1>2, <1>5, <1>6, <2>2
    <3>2. <<u, role, themes'[u].definition[role]>> \in themeFonts
      BY <3>1 DEF PInv, FontRows
    <3> QED
      BY <2>2, <3>2 DEF ThemeWritten, references
  <2> QED
    BY <2>1, <2>2
<1>8. FontsKept'
  <2> SUFFICES ASSUME NEW ref \in themeFonts' PROVE fonts[ref[3]] > 0
    BY DEF FontsKept, ThemeWritten
  <2>1. CASE ref \in themeFonts
    BY <2>1 DEF PInv, FontsKept
  <2>2. CASE ref \notin themeFonts
    <3>1. PICK role \in FontRoles : /\ row.definition[role] # Nil
                                    /\ ref = <<t, role, row.definition[role]>>
      BY <2>2 DEF ThemeWritten, references
    <3> QED
      BY <3>1 DEF checkFonts
  <2> QED
    BY <2>1, <2>2
<1>9. BrandsKept'
  <2>2. ASSUME NEW u \in Stored(themes)'
        PROVE  \A role \in BrandRoles : themes'[u].brand[role] # Nil =>
                 themes'[u].brand[role] \in Stored(icons)
    BY <1>2, <1>5, <1>6 DEF PInv, BrandsKept, checkBrand
  <2> QED
    BY <2>2 DEF BrandsKept, checkBrand, ThemeWritten, Stored
<1> QED
  BY <1>2, <1>4, <1>5, <1>7, <1>8, <1>9

-----------------------------------------------------------------------------
(* Save. *)

LEMMA SelectionForms ==
  ASSUME NEW s \in Selections
  PROVE  \/ s.kind = "builtin" /\ s.key \in Presets
         \/ /\ s.kind = "custom" /\ s.theme \in Themes
            /\ s.expected \in 1..MaxEdits /\ s.draft \in Drafts \cup {Nil}
         \/ s.kind = "newCustom" /\ s.theme \in Themes /\ s.draft \in Drafts
  BY DEF Selections

LEMMA CommandFields ==
  ASSUME TypeOK, NEW c \in sent
  PROVE  /\ c \in Commands /\ c # Nil /\ c.id \in CommandIds
         /\ c.expected \in 0..MaxRevision /\ c.selection \in Selections
  BY DataAssumptions DEF TypeOK, Commands

\* What the transaction has checked when it commits a command.
LEMMA SaveChecked ==
  ASSUME PInv, NEW c \in sent, Save(c)
  PROVE  /\ settings.revision = c.expected
         /\ \/ c.selection.kind = "builtin" /\ c.selection.key \in Presets
            \/ /\ c.selection.kind = "custom" /\ c.selection.draft = Nil
               /\ c.selection.theme \in Stored(themes)
            \/ /\ c.selection.kind = "custom" /\ c.selection.draft \in Drafts
               /\ c.selection.theme \in Stored(themes)
               /\ checkBrand(Written(c).brand) /\ checkFonts(Written(c).definition)
            \/ /\ c.selection.kind = "newCustom" /\ c.selection.draft \in Drafts
               /\ c.selection.theme \in Themes
               /\ checkBrand(Written(c).brand) /\ checkFonts(Written(c).definition)
<1>1. Refusal(c) = "ok"
  BY DEF Save, Outcome
<1>2. c.selection \in Selections
  BY CommandFields DEF PInv
<1>3. CurrentSettings(c)
  BY <1>1 DEF Refusal
<1>4. CASE c.selection.kind = "builtin"
  BY <1>2, <1>3, <1>4, SelectionForms DEF CurrentSettings
<1>5. CASE c.selection.kind = "custom"
  <2>1. c.selection.draft \in Drafts \cup {Nil}
    BY <1>2, <1>5, SelectionForms
  <2>2. /\ c.selection.theme \in Stored(themes)
        /\ c.selection.draft # Nil =>
             checkBrand(Written(c).brand) /\ checkFonts(Written(c).definition)
    BY <1>1, <1>3, <1>5 DEF Refusal
  <2> QED
    BY <1>3, <1>5, <2>1, <2>2 DEF CurrentSettings
<1>6. CASE c.selection.kind = "newCustom"
  <2>1. c.selection.draft \in Drafts /\ c.selection.theme \in Themes
    BY <1>2, <1>6, SelectionForms
  <2>2. checkBrand(Written(c).brand) /\ checkFonts(Written(c).definition)
    BY <1>1, <1>3, <1>6 DEF Refusal
  <2> QED
    BY <1>3, <1>6, <2>1, <2>2 DEF CurrentSettings
<1> QED
  BY <1>2, <1>4, <1>5, <1>6, SelectionForms

\* The row that a command writes is a theme row with the draft's definition.
LEMMA WrittenRow ==
  ASSUME PInv, NEW c \in sent, Save(c), Writes(c)
  PROVE  /\ c.selection.theme \in Themes
         /\ Written(c) \in ThemeRows
         /\ Written(c).definition = c.selection.draft.definition
         /\ checkBrand(Written(c).brand) /\ checkFonts(Written(c).definition)
<1>1. /\ c.selection.draft \in Drafts
      /\ checkBrand(Written(c).brand) /\ checkFonts(Written(c).definition)
      /\ \/ /\ c.selection.kind = "custom"
            /\ c.selection.theme \in Stored(themes)
         \/ c.selection.kind = "newCustom" /\ c.selection.theme \in Themes
  BY SaveChecked DEF Writes
<1>2. /\ c.selection.draft.definition \in Definitions
      /\ NewBrand(c.selection.draft) \in Brands
      /\ \A brand \in Brands : DraftBrand(c.selection.draft, brand) \in Brands
  BY <1>1, DraftFields
<1>3. CASE c.selection.kind = "newCustom"
  <2>1. Written(c) = [definition |-> c.selection.draft.definition,
                      brand |-> NewBrand(c.selection.draft), revision |-> 1,
                      creation |-> c.selection.draft.definition]
    BY <1>3 DEF Written
  <2>2. 1 \in 1..MaxEdits
    BY PresentationAssumptions
  <2> QED
    BY <1>1, <1>2, <1>3, <2>1, <2>2 DEF ThemeRows
<1>4. CASE c.selection.kind = "custom"
  <2>1. PICK row : row = themes[c.selection.theme]
    OBVIOUS
  <2>2. c.selection.theme \in Themes /\ row \in ThemeRows
    BY <1>1, <1>4, <2>1, StoredThemes DEF PInv
  <2>3. PICK brand : brand = DraftBrand(c.selection.draft, row.brand)
    OBVIOUS
  <2>4. Written(c) = [row EXCEPT !.definition = c.selection.draft.definition,
                                 !.brand = brand, !.revision = @ + 1]
    BY <1>4, <2>1, <2>3 DEF Written
  <2>5. Written(c).revision <= MaxEdits
    BY DEF Save
  <2>6. brand \in Brands /\ row.revision \in 1..MaxEdits
    BY <1>2, <2>2, <2>3 DEF ThemeRows
  <2>7. row.revision + 1 \in 1..MaxEdits
    BY <2>2, <2>4, <2>5, <2>6, PresentationAssumptions DEF ThemeRows
  <2>8. /\ Written(c) \in ThemeRows
        /\ Written(c).definition = c.selection.draft.definition
    BY <1>2, <2>2, <2>4, <2>6, <2>7 DEF ThemeRows
  <2> QED
    BY <1>1, <2>2, <2>8
<1> QED
  BY <1>1, <1>3, <1>4

\* The receipt names the next revision and a theme that is or becomes stored.
LEMMA ReceiptFields ==
  ASSUME PInv, NEW c \in sent, Save(c)
  PROVE  /\ Receipt(c) \in Receipts
         /\ Receipt(c).selected \in Themes =>
              \/ Receipt(c).selected \in Stored(themes)
              \/ Writes(c) /\ Receipt(c).selected = c.selection.theme
<1>1. settings.revision + 1 \in 1..MaxRevision
  BY PresentationAssumptions DEF PInv, TypeOK, Save
<1>2. c.id \in CommandIds
  BY CommandFields DEF PInv
<1>3. \A t \in Stored(themes) : t \in Themes /\ themes[t].revision \in 0..MaxEdits
  BY StoredThemes DEF PInv, ThemeRows
<1>4. Writes(c) => Written(c).revision \in 0..MaxEdits /\ c.selection.theme \in Themes
  BY WrittenRow DEF ThemeRows
<1>5. CASE c.selection.kind = "builtin"
  <2>1. c.selection.key \in Presets
    BY <1>5, SaveChecked
  <2>2. Receipt(c) = [id |-> c.id, revision |-> settings.revision + 1,
                      selected |-> c.selection.key, theme |-> 0]
    BY <1>5 DEF Receipt
  <2>3. 0 \in 0..MaxEdits
    BY PresentationAssumptions
  <2> QED
    BY <1>1, <1>2, <2>1, <2>2, <2>3, PresentationAssumptions DEF Receipts
<1>6. CASE c.selection.kind # "builtin"
  <2>1. Writes(c) \/ c.selection.theme \in Stored(themes)
    BY <1>6, SaveChecked, DataAssumptions DEF Writes
  <2>2. PICK n : n = IF Writes(c) THEN Written(c).revision
                                  ELSE themes[c.selection.theme].revision
    OBVIOUS
  <2>3. Receipt(c) = [id |-> c.id, revision |-> settings.revision + 1,
                      selected |-> c.selection.theme, theme |-> n]
    BY <1>6, <2>2 DEF Receipt
  <2>4. n \in 0..MaxEdits /\ c.selection.theme \in Themes
    BY <1>3, <1>4, <2>1, <2>2
  <2> QED
    BY <1>1, <1>2, <2>1, <2>3, <2>4 DEF Receipts
<1> QED
  BY <1>5, <1>6

\* The history after a commit.
LEMMA SaveLogged ==
  ASSUME PInv, NEW c \in sent, Save(c)
  PROVE  Logged' /\ log' \in Seq([command: Commands, receipt: Receipts])
<1>1. PICK e : e = [command |-> c, receipt |-> Receipt(c)]
  OBVIOUS
<1>2. /\ e \in [command: Commands, receipt: Receipts]
      /\ e.command = c /\ e.receipt = Receipt(c)
  BY <1>1, CommandFields, ReceiptFields DEF PInv
<1>3. log \in Seq([command: Commands, receipt: Receipts]) /\ log' = Append(log, e)
  BY <1>1 DEF PInv, TypeOK, Save
<1>4. /\ log' \in Seq([command: Commands, receipt: Receipts])
      /\ Len(log') = Len(log) + 1 /\ Len(log) \in Nat
      /\ log'[Len(log) + 1] = e
      /\ \A n \in 1..Len(log) : log'[n] = log[n]
  BY <1>2, <1>3
<1>5. settings.revision = Len(log) /\ c.expected = Len(log)
  BY SaveChecked DEF PInv, Logged
<1>6. /\ settings'.revision = settings.revision + 1
      /\ settings'.last = c /\ settings'.receipt = Receipt(c)
  BY DEF Save
<1>7. \A n \in 1..Len(log') : log'[n].command.expected = n - 1
  BY <1>2, <1>4, <1>5 DEF PInv, Logged
<1> QED
  BY <1>2, <1>4, <1>5, <1>6, <1>7 DEF Logged

LEMMA SaveKeeps ==
  ASSUME PInv, NEW c \in sent, Save(c)
  PROVE  PInv'
<1>1. Logged' /\ log' \in Seq([command: Commands, receipt: Receipts])
  BY SaveLogged
<1>2. /\ settings' = [selected |-> Receipt(c).selected,
                      revision |-> settings.revision + 1,
                      last |-> c, receipt |-> Receipt(c)]
      /\ UNCHANGED <<fonts, icons, edits, sent, renames>>
  BY DEF Save
<1>3. /\ settings' \in [selected: Themes \cup Presets, revision: 0..MaxRevision,
                        last: Commands \cup {Nil}, receipt: Receipts \cup {Nil}]
      /\ settings'.selected = Receipt(c).selected
  <2>1. Receipt(c) \in Receipts /\ c \in Commands
    BY ReceiptFields, CommandFields DEF PInv
  <2>2. settings.revision + 1 \in 0..MaxRevision
    BY PresentationAssumptions DEF PInv, TypeOK, Save
  <2>3. Receipt(c).selected \in Themes \cup Presets
    BY <2>1 DEF Receipts
  <2> QED
    BY <1>2, <2>1, <2>2, <2>3
<1>4. /\ themes' \in [Themes -> ThemeRows \cup {Nil}]
      /\ themeFonts' \subseteq Themes \X FontRoles \X Fonts
      /\ FontRows' /\ FontsKept' /\ BrandsKept'
      /\ Stored(themes) \subseteq Stored(themes)'
      /\ Writes(c) => c.selection.theme \in Stored(themes)'
  <2>1. CASE Writes(c)
    <3>1. ThemeWritten(c.selection.theme, Written(c))
      BY <2>1, WrittenRow DEF Save, ThemeWritten
    <3> QED
      BY <2>1, <3>1, WrittenRow, WriteKeeps
  <2>2. CASE ~Writes(c)
    BY <2>2 DEF Save, PInv, TypeOK, Stored, FontRows, FontsKept, BrandsKept, checkBrand
  <2> QED
    BY <2>1, <2>2
<1>5. EditsKept' /\ SelectedKept'
  BY <1>2, <1>3, <1>4, ReceiptFields DEF PInv, EditsKept, SelectedKept, Stored
<1>6. TypeOK'
  BY <1>1, <1>2, <1>3, <1>4 DEF PInv, TypeOK
<1> QED
  BY <1>1, <1>4, <1>5, <1>6 DEF PInv

-----------------------------------------------------------------------------
(* The theme catalog, fonts and icons. *)

\* What leaves the settings row and the history alone.
LEMMA LoggedKept ==
  ASSUME PInv, UNCHANGED <<settings, log>>
  PROVE  Logged'
  BY DEF PInv, Logged

LEMMA SendSaveKeeps ==
  ASSUME PInv, NEW id \in CommandIds, NEW expected \in 0..settings.revision,
         NEW s \in Selections, SendSave(id, expected, s)
  PROVE  PInv'
<1>1. [id |-> id, expected |-> expected, selection |-> s] \in Commands
  <2>1. settings.revision \in 0..MaxRevision
    BY DEF PInv, TypeOK
  <2>2. expected \in 0..MaxRevision
    BY <2>1, PresentationAssumptions
  <2> QED
    BY <2>2 DEF Commands
<1>2. TypeOK'
  BY <1>1 DEF PInv, TypeOK, SendSave
<1>3. FontRows' /\ FontsKept' /\ BrandsKept' /\ EditsKept' /\ SelectedKept'
  BY DEF PInv, SendSave, FontRows, FontsKept, BrandsKept, EditsKept, SelectedKept,
         checkBrand, Stored
<1> QED
  BY <1>2, <1>3, LoggedKept DEF PInv, SendSave

LEMMA InsertKeeps ==
  ASSUME PInv, NEW t \in Themes, NEW d \in Definitions, NEW brand \in Brands,
         NEW creation \in Definitions \cup Themes,
         InsertTheme(t, d, brand, creation)
  PROVE  PInv'
<1>1. PICK row : row = [definition |-> d, brand |-> brand, revision |-> 1,
                        creation |-> creation]
  OBVIOUS
<1>2. 1 \in 1..MaxEdits
  BY PresentationAssumptions
<1>3. row \in ThemeRows /\ row.definition = d /\ row.brand = brand
  BY <1>1, <1>2 DEF ThemeRows
<1>4. ThemeWritten(t, row) /\ checkFonts(row.definition) /\ checkBrand(row.brand)
  BY <1>1, <1>3 DEF InsertTheme, ThemeWritten
<1>5. /\ themes' \in [Themes -> ThemeRows \cup {Nil}]
      /\ themeFonts' \subseteq Themes \X FontRoles \X Fonts
      /\ Stored(themes)' = Stored(themes) \cup {t}
      /\ FontRows' /\ FontsKept' /\ BrandsKept'
  BY <1>3, <1>4, WriteKeeps
<1>6. EditsKept' /\ SelectedKept'
  BY <1>5 DEF PInv, InsertTheme, EditsKept, SelectedKept, Stored
<1>7. TypeOK'
  BY <1>5 DEF PInv, TypeOK, InsertTheme
<1> QED
  BY <1>5, <1>6, <1>7, LoggedKept DEF PInv, InsertTheme

LEMMA CreateKeeps ==
  ASSUME PInv, NEW t \in Themes, NEW draft \in Drafts, CreateTheme(t, draft)
  PROVE  PInv'
  BY DraftFields, InsertKeeps DEF CreateTheme

LEMMA CopyKeeps ==
  ASSUME PInv, NEW t \in Themes, NEW from \in Themes, CopyTheme(t, from)
  PROVE  PInv'
<1>1. themes[from].definition \in Definitions /\ themes[from].brand \in Brands
  BY StoredThemes DEF CopyTheme, PInv, ThemeRows
<1> QED
  BY <1>1, InsertKeeps DEF CopyTheme

\* A new text leaves the fonts and the brand of a theme as they are.
LEMMA RenameKeeps ==
  ASSUME PInv, NEW t \in Themes, NEW text \in Texts, RenameTheme(t, text)
  PROVE  PInv'
<1>1. PICK row : row = themes[t]
  OBVIOUS
<1>2. row \in ThemeRows /\ row.definition \in Definitions
  BY <1>1, StoredThemes DEF PInv, RenameTheme, ThemeRows
<1>3. PICK d : d = [row.definition EXCEPT !.text = text]
  OBVIOUS
<1>4. d \in Definitions /\ \A role \in FontRoles : d[role] = row.definition[role]
  <2>1. d \in Definitions
    BY <1>2, <1>3 DEF Definitions
  <2>2. d["title"] = row.definition["title"] /\ d["body"] = row.definition["body"]
    BY <1>2, <1>3 DEF Definitions
  <2> QED
    BY <2>1, <2>2 DEF FontRoles
<1>5. PICK new : new = [row EXCEPT !.definition = d, !.revision = @ + 1]
  OBVIOUS
<1>6. themes' = [themes EXCEPT ![t] = new]
  BY <1>1, <1>2, <1>3, <1>5 DEF RenameTheme, ThemeRows
<1>7. new \in ThemeRows /\ new.definition = d /\ new.brand = row.brand
  <2>1. row.revision \in Nat /\ row.revision + 1 \in 1..MaxEdits
    BY <1>1, <1>2, PresentationAssumptions DEF RenameTheme, ThemeRows
  <2> QED
    BY <1>2, <1>4, <1>5, <2>1 DEF ThemeRows
<1>8. /\ themes' \in [Themes -> ThemeRows \cup {Nil}]
      /\ themes'[t] = new
      /\ \A u \in Themes \ {t} : themes'[u] = themes[u]
  BY <1>6, <1>7 DEF PInv, TypeOK
<1>9. TypeOK'
  BY <1>8 DEF PInv, TypeOK, RenameTheme
<1>10. Stored(themes)' = Stored(themes)
  BY <1>1, <1>2, <1>7, <1>8, <1>9, StoredThemes, DataAssumptions
     DEF Stored, PInv, TypeOK
<1>11. \A u \in Stored(themes) :
         /\ themes'[u].brand = themes[u].brand
         /\ \A role \in FontRoles :
              themes'[u].definition[role] = themes[u].definition[role]
  BY <1>1, <1>4, <1>7, <1>8, StoredThemes DEF PInv
<1>12. FontRows'
  <2> SUFFICES ASSUME NEW u \in Stored(themes), NEW role \in FontRoles,
                      themes'[u].definition[role] # Nil
               PROVE  <<u, role, themes'[u].definition[role]>> \in themeFonts
    <3>1. themeFonts' = themeFonts
      BY DEF RenameTheme
    <3> QED
      BY <1>10, <3>1 DEF FontRows
  <2>1. themes'[u].definition[role] = themes[u].definition[role]
    BY <1>11
  <2> QED
    BY <2>1 DEF PInv, FontRows
<1>13. FontsKept' /\ EditsKept' /\ SelectedKept'
  BY <1>10 DEF PInv, FontsKept, EditsKept, SelectedKept, RenameTheme, Stored
<1>14. BrandsKept'
  BY <1>10, <1>11 DEF PInv, BrandsKept, checkBrand, RenameTheme, Stored
<1> QED
  BY <1>9, <1>12, <1>13, <1>14, LoggedKept DEF PInv, RenameTheme

LEMMA DeleteThemeKeeps ==
  ASSUME PInv, NEW t \in Themes, DeleteTheme(t)
  PROVE  PInv'
<1>1. /\ themes' \in [Themes -> ThemeRows \cup {Nil}] /\ themes'[t] = Nil
      /\ \A u \in Themes \ {t} : themes'[u] = themes[u]
  BY DEF PInv, TypeOK, DeleteTheme
<1>2. TypeOK'
  BY <1>1 DEF PInv, TypeOK, DeleteTheme
<1>3. Stored(themes)' = Stored(themes) \ {t} /\ Stored(themes) \subseteq Themes
  BY <1>1 DEF PInv, TypeOK, Stored
<1>4. FontRows'
  BY <1>1, <1>3 DEF PInv, FontRows, DeleteTheme
<1>5. FontsKept' /\ EditsKept'
  BY DEF PInv, FontsKept, EditsKept, DeleteTheme, Stored
<1>6. SelectedKept'
  BY <1>3 DEF PInv, SelectedKept, DeleteTheme, DeletableTheme
<1>7. BrandsKept'
  BY <1>1, <1>3 DEF PInv, BrandsKept, checkBrand, DeleteTheme, Stored
<1> QED
  BY <1>2, <1>4, <1>5, <1>6, <1>7, LoggedKept DEF PInv, DeleteTheme

LEMMA FontKeeps ==
  ASSUME PInv, NEW f \in Fonts,
         DeleteFont(f) \/ \E length \in 1..MaxFontStorage : CreateFont(f, length)
  PROVE  PInv'
<1> DEFINE Unused(n) == n > 0 \/ \A row \in themeFonts : row[3] # f
<1>1. \E n \in 0..MaxFontStorage : fonts' = [fonts EXCEPT ![f] = n] /\ Unused(n)
  <2>1. CASE DeleteFont(f)
    <3>1. fonts' = [fonts EXCEPT ![f] = 0] /\ Unused(0)
      BY <2>1, Zenon DEF DeleteFont
    <3>2. 0 \in 0..MaxFontStorage
      BY PresentationAssumptions
    <3> QED
      BY <3>1, <3>2, Zenon
  <2>2. ASSUME NEW length \in 1..MaxFontStorage, CreateFont(f, length)
        PROVE  fonts' = [fonts EXCEPT ![f] = length]
    BY <2>2, Zenon DEF CreateFont
  <2>3. \A length \in 1..MaxFontStorage : length \in 0..MaxFontStorage /\ length > 0
    BY PresentationAssumptions
  <2> QED
    BY <2>1, <2>2, <2>3, Zenon
<1>2. PICK n \in 0..MaxFontStorage : fonts' = [fonts EXCEPT ![f] = n] /\ Unused(n)
  BY <1>1, Zenon
<1>3. UNCHANGED <<settings, themes, themeFonts, icons, edits, sent, renames, log>>
  BY DEF DeleteFont, CreateFont
<1>4. TypeOK'
  <2>1. fonts' \in [Fonts -> 0..MaxFontStorage]
    BY <1>2 DEF PInv, TypeOK
  <2> QED
    BY <1>3, <2>1 DEF PInv, TypeOK
<1>5. FontsKept'
  <2> SUFFICES ASSUME NEW row \in themeFonts PROVE fonts'[row[3]] > 0
    BY <1>3 DEF FontsKept
  <2>1. row[3] \in Fonts /\ fonts[row[3]] > 0 /\ fonts \in [Fonts -> 0..MaxFontStorage]
    BY DEF PInv, FontsKept, TypeOK
  <2> QED
    BY <1>2, <2>1
<1>6. FontRows' /\ BrandsKept' /\ EditsKept' /\ SelectedKept'
  BY <1>3 DEF PInv, FontRows, BrandsKept, EditsKept, SelectedKept, checkBrand, Stored
<1> QED
  BY <1>3, <1>4, <1>5, <1>6, LoggedKept DEF PInv

\* An icon written with a row stays or becomes stored.
LEMMA IconWriteKeeps ==
  ASSUME PInv, NEW i \in Icons, NEW row \in IconRows,
         icons' = [icons EXCEPT ![i] = row], renames' \subseteq renames,
         UNCHANGED <<settings, themes, themeFonts, fonts, edits, sent, log>>
  PROVE  PInv'
<1>1. TypeOK'
  BY DEF PInv, TypeOK
<1>2. Stored(icons) \subseteq Stored(icons)'
  BY DataAssumptions DEF Stored, PInv, TypeOK
<1>3. FontRows' /\ FontsKept' /\ SelectedKept'
  BY DEF PInv, FontRows, FontsKept, SelectedKept, Stored
<1>4. BrandsKept'
  <2>1. Stored(themes)' = Stored(themes)
    BY DEF Stored
  <2> QED
    BY <1>2, <2>1 DEF PInv, BrandsKept, checkBrand
<1>5. EditsKept'
  BY <1>2 DEF PInv, EditsKept
<1> QED
  BY <1>1, <1>3, <1>4, <1>5, LoggedKept DEF PInv

LEMMA RenameReadKeeps ==
  ASSUME PInv, NEW i \in Icons, NEW name \in Names, NEW revision \in IconRows,
         RenameIconRead(i, name, revision)
  PROVE  PInv'
<1>1. icons[i].data \in Pictures
  BY StoredIcons DEF PInv, RenameIconRead, IconRows
<1>2. [icon |-> i, name |-> name, revision |-> revision, data |-> icons[i].data]
        \in [icon: Icons, name: Names, revision: IconRows, data: Pictures]
  BY <1>1
<1>3. TypeOK'
  BY <1>2 DEF PInv, TypeOK, RenameIconRead
<1>4. FontRows' /\ FontsKept' /\ BrandsKept' /\ EditsKept' /\ SelectedKept'
  BY DEF PInv, RenameIconRead, FontRows, FontsKept, BrandsKept, EditsKept,
         SelectedKept, checkBrand, Stored
<1> QED
  BY <1>3, <1>4, LoggedKept DEF PInv, RenameIconRead

LEMMA RenameWriteKeeps ==
  ASSUME PInv, NEW r \in renames, RenameIconWrite(r)
  PROVE  PInv'
<1>1. r.icon \in Icons /\ [name |-> r.name, data |-> r.data] \in IconRows
  BY DEF PInv, TypeOK, IconRows
<1>2. CASE Updatable(r.icon, r.revision, r.data)
  BY <1>1, <1>2, IconWriteKeeps DEF RenameIconWrite
<1>3. CASE ~Updatable(r.icon, r.revision, r.data)
  <2>1. TypeOK'
    BY <1>3 DEF PInv, TypeOK, RenameIconWrite
  <2>2. FontRows' /\ FontsKept' /\ BrandsKept' /\ EditsKept' /\ SelectedKept'
    BY <1>3 DEF PInv, RenameIconWrite, FontRows, FontsKept, BrandsKept, EditsKept,
                SelectedKept, checkBrand, Stored
  <2> QED
    BY <2>1, <2>2, LoggedKept DEF PInv, RenameIconWrite
<1> QED
  BY <1>2, <1>3

LEMMA DeleteIconKeeps ==
  ASSUME PInv, NEW i \in Icons, DeleteIcon(i)
  PROVE  PInv'
<1>1. TypeOK'
  BY DEF PInv, TypeOK, DeleteIcon
<1>2. Stored(icons)' = Stored(icons) \ {i} /\ Stored(themes)' = Stored(themes)
  BY DEF DeleteIcon, Stored, PInv, TypeOK
<1>3. FontRows' /\ FontsKept' /\ SelectedKept'
  BY DEF PInv, FontRows, FontsKept, SelectedKept, Stored, DeleteIcon
<1>4. BrandsKept'
  BY <1>2 DEF PInv, BrandsKept, checkBrand, DeleteIcon, Branded
<1>5. EditsKept'
  BY <1>2 DEF PInv, EditsKept, DeleteIcon
<1> QED
  BY <1>1, <1>3, <1>4, <1>5, LoggedKept DEF PInv, DeleteIcon

LEMMA SaveEditKeeps ==
  ASSUME PInv, NEW s \in Services, NEW i \in Icons \cup {Nil}, SaveEdit(s, i)
  PROVE  PInv'
<1>1. TypeOK'
  BY DEF PInv, TypeOK, SaveEdit
<1>2. EditsKept'
  BY DEF PInv, TypeOK, SaveEdit, EditsKept, Stored
<1>3. FontRows' /\ FontsKept' /\ BrandsKept' /\ SelectedKept'
  BY DEF PInv, SaveEdit, FontRows, FontsKept, BrandsKept, SelectedKept,
         checkBrand, Stored
<1> QED
  BY <1>1, <1>2, <1>3, LoggedKept DEF PInv, SaveEdit

-----------------------------------------------------------------------------
(* The theorems. *)

LEMMA InitPInv == Init => PInv
<1> SUFFICES ASSUME Init PROVE PInv
  OBVIOUS
<1>1. TypeOK
  BY PresentationAssumptions DEF Init, TypeOK
<1>2. Stored(themes) = {}
  BY DEF Init, Stored
<1>3. FontRows /\ FontsKept /\ BrandsKept /\ EditsKept /\ SelectedKept
  BY <1>2, PresentationAssumptions
     DEF Init, FontRows, FontsKept, BrandsKept, EditsKept, SelectedKept
<1>4. Logged
  BY DEF Init, Logged
<1> QED
  BY <1>1, <1>3, <1>4 DEF PInv

LEMMA StepPInv == PInv /\ [Next]_vars => PInv'
<1> SUFFICES ASSUME PInv, [Next]_vars PROVE PInv'
  OBVIOUS
<1>1. CASE UNCHANGED vars
  <2>1. TypeOK'
    BY <1>1 DEF vars, PInv, TypeOK
  <2>2. FontRows' /\ FontsKept' /\ BrandsKept' /\ EditsKept' /\ SelectedKept'
    BY <1>1 DEF PInv, vars, FontRows, FontsKept, BrandsKept, EditsKept,
                SelectedKept, checkBrand, Stored
  <2> QED
    BY <1>1, <2>1, <2>2, LoggedKept DEF PInv, vars
<1>2. ASSUME NEW i \in Icons, NEW row \in IconRows,
             UploadIcon(i, row) \/ ReplaceIcon(i, row)
      PROVE  PInv'
  BY <1>2, IconWriteKeeps DEF UploadIcon, ReplaceIcon
<1> QED
  BY <1>1, <1>2, SendSaveKeeps, SaveKeeps, CreateKeeps, CopyKeeps, RenameKeeps,
     DeleteThemeKeeps, FontKeeps, RenameReadKeeps, RenameWriteKeeps,
     DeleteIconKeeps, SaveEditKeeps DEF Next

\* The inductive invariant of the appearance: the stores are typed, references
\* resolve in both directions, and the settings row is the end of the history.
THEOREM Invariance == Spec => []PInv
  BY InitPInv, StepPInv, PTL DEF Spec

\* Every stored value is one of its type (presentation.go, icons.go).
THEOREM TypeCorrect == Spec => []TypeOK
<1>1. PInv => TypeOK
  BY DEF PInv
<1> QED
  BY <1>1, Invariance, PTL

\* Whatever Saves, deletions and uploads interleave, State and every theme page
\* finds the rows that the appearance names (Save, DeleteTheme, DeleteFont,
\* IconStore.Delete).
THEOREM ReferencesAlwaysResolve == Spec => []ReferencesResolve
<1>1. PInv => ReferencesResolve
  <2> SUFFICES ASSUME PInv PROVE ReferencesResolve
    OBVIOUS
  <2>1. ASSUME NEW t \in Stored(themes) PROVE checkFonts(themes[t].definition)
    <3>1. ASSUME NEW role \in FontRoles, themes[t].definition[role] # Nil
          PROVE  fonts[themes[t].definition[role]] > 0
      <4>1. PICK row \in themeFonts : row = <<t, role, themes[t].definition[role]>>
        BY <3>1 DEF PInv, FontRows
      <4>2. fonts[row[3]] > 0
        BY <4>1 DEF PInv, FontsKept
      <4> QED
        BY <4>1, <4>2
    <3> QED
      BY <3>1 DEF checkFonts
  <2> QED
    BY <2>1 DEF PInv, SelectedKept, BrandsKept, EditsKept, ReferencesResolve, State
<1> QED
  BY <1>1, Invariance, PTL

\* A Save delivered twice, or late, is committed once: the settings revision it
\* expects was current only once (presentation.go, Save).
THEOREM SavesApplyOnce == Spec => []AppliedOnce
<1>1. PInv => AppliedOnce
  <2> SUFFICES ASSUME PInv, NEW m \in 1..Len(log), NEW n \in 1..Len(log),
                      log[m].command = log[n].command
               PROVE  m = n
    BY DEF AppliedOnce
  <2>1. Len(log) \in Nat
    BY DEF PInv, TypeOK
  <2>2. log[m].command.expected = m - 1 /\ log[n].command.expected = n - 1
    BY DEF PInv, Logged
  <2> QED
    BY <2>1, <2>2
<1> QED
  BY <1>1, Invariance, PTL

\* A replayed Save gets the receipt of its own commit, and the last commit is
\* never refused to its sender (presentation.go, Save).
THEOREM RepliesAreTruthful == Spec => []RepliesTruthful
<1>1. PInv => RepliesTruthful
  <2> SUFFICES ASSUME PInv, NEW c \in sent
               PROVE  /\ Replayed(c) /\ Outcome(c).refusal = "ok" =>
                           \E n \in 1..Len(log) : /\ log[n].command = c
                                                  /\ log[n].receipt = Outcome(c).receipt
                      /\ Outcome(c).refusal # "ok" =>
                           \A n \in 1..Len(log) : log[n].command = c => n < Len(log)
    BY DEF RepliesTruthful
  <2>1. Len(log) \in Nat /\ c # Nil
    BY CommandFields DEF PInv, TypeOK
  <2>2. ASSUME Replayed(c), Outcome(c).refusal = "ok"
        PROVE  \E n \in 1..Len(log) : /\ log[n].command = c
                                      /\ log[n].receipt = Outcome(c).receipt
    <3>1. settings.last = c /\ Outcome(c).receipt = settings.receipt
      BY <2>2 DEF Outcome
    <3>2. Len(log) > 0
      BY <2>1, <3>1 DEF PInv, Logged
    <3> QED
      BY <2>1, <3>1, <3>2 DEF PInv, Logged
  <2>3. ASSUME Outcome(c).refusal # "ok", NEW n \in 1..Len(log), log[n].command = c
        PROVE  n < Len(log)
    <3>1. settings.last # c
      BY <2>1, <2>3 DEF Outcome, Replayed
    <3>2. n # Len(log)
      BY <2>1, <2>3, <3>1 DEF PInv, Logged
    <3> QED
      BY <2>1, <3>2
  <2> QED
    BY <2>2, <2>3
<1> QED
  BY <1>1, Invariance, PTL

\* A picture that a theme shows does not change under it: an upload cannot
\* take a branded id, a replacement and a late rename are refused, a deletion
\* too (IconStore.Save, IconStore.Delete).
THEOREM BrandPicturesStay == Spec => BrandPictureStable
<1>1. PInv /\ [Next]_vars =>
        [\A i \in Icons : Branded(i) /\ Branded(i)' => icons'[i].data = icons[i].data]_vars
  <2> SUFFICES ASSUME PInv, Next, NEW i \in Icons, Branded(i)
               PROVE  icons'[i].data = icons[i].data
    OBVIOUS
  <2>1. i \in Stored(icons) /\ icons \in [Icons -> IconRows \cup {Nil, Gone}]
    BY PresentationAssumptions DEF Branded, PInv, BrandsKept, checkBrand, TypeOK
  <2>2. ASSUME NEW j \in Icons, NEW row \in IconRows, UploadIcon(j, row)
        PROVE  icons'[i].data = icons[i].data
    BY <2>1, <2>2 DEF UploadIcon, Stored
  <2>3. ASSUME NEW j \in Icons, NEW row \in IconRows, ReplaceIcon(j, row)
        PROVE  icons'[i].data = icons[i].data
    BY <2>1, <2>3 DEF ReplaceIcon, Updatable
  <2>4. ASSUME NEW r \in renames, RenameIconWrite(r)
        PROVE  icons'[i].data = icons[i].data
    BY <2>1, <2>4 DEF RenameIconWrite, Updatable, PInv, TypeOK
  <2>5. ASSUME NEW j \in Icons, DeleteIcon(j) PROVE icons'[i].data = icons[i].data
    BY <2>1, <2>5 DEF DeleteIcon
  <2> QED
    BY <2>2, <2>3, <2>4, <2>5 DEF Next, SendSave, Save, CreateTheme, CopyTheme,
       InsertTheme, RenameTheme, DeleteTheme, CreateFont, DeleteFont, RenameIconRead,
       SaveEdit
<1> QED
  BY <1>1, Invariance, PTL DEF Spec, BrandPictureStable

=============================================================================
