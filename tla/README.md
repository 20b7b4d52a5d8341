# gdiff in TLA+

gdiff is a GNOME 1.x front end to diff(1).  It opens a window with one tab per
comparison (GnomeMDI), runs `diff` as a child process for each, reads its
output through a pipe and shows two files side by side or two directories as a
tree.  These modules model the parts of `src/` where the difficulty lies:
processes and pipes, loads that dispatch events in the middle of their work,
the tree built from diff's report, the choice of what is compared, dialogs and
menus that must keep up with what is open, the preferences that several gdiffs
share, and the two libraries that are kept in the repository, `intl/` (GNU
gettext) and `popt/`.

All of gdiff is one thread.  What makes it hard nevertheless:

- `gtk_compare` loops on `gtk_events_pending` three times in the middle of a
  load, so callbacks, and other loads, run on top of it;
- several diffs may run at once; children inherit each other's pipe ends, and
  dead children are reaped only by the next call of `run_diff`;
- a view can be closed, the MDI destroyed and gdiff told to quit while loads
  are unfinished on the C stack;
- paths are looked at three times by `stat` before they are compared;
- the tree of a directory comparison depends on the order of diff's lines;
- dialogs are found by static pointers that only signal handlers keep right,
  and a modal question runs a main loop of its own;
- the libraries keep state between calls: lists of catalogues, tables read on
  demand, a stack of alias texts, a buffer for the lines of a file.

## Inventory

| Component | State | Operations | Interacts through | What makes it correct |
|---|---|---|---|---|
| **spawn** `spawn.c` | pipes, children, `FILE*` | `run_diff`, and its callers' `fgets` and `fclose` | forked diff, inherited descriptors | end of file comes when the run's own diff is gone; nothing is lost; children are reaped; no deadlock on a full pipe |
| **compare view** `compare.c` | `drawn`, the CList's rows and freeze count | `gtk_compare_draw`, `gtk_compare` | `run_diff`, event pumps | loaded once, wholly, never shown half filled; its `DiffOptions` outlive the load |
| **directory view** `derived.c`, `tree.c` | `drawn`, tree of nodes | `gtk_diff_tree_draw`, `gtk_diff_tree_compare` | `run_diff`, `tree_parse_diff` | loaded once; streams closed |
| **MDI window** `mdi.c`, `gd.c` | children, active view, main loop | add, select, remove, close, destroy | `DiffOptions` handed over by main and the file dialog | active views get drawn; a quit ends gdiff; nothing freed is used |
| **menus** `menu.c` | sensitivity of items, the static `option` of confirm | close display, exit, new diff, preferences, save list, `confirm` | MDI, dialogs (a nested, modal loop) | items act on the view that is active; the box and the option agree |
| **directory tree** `node.c` | the nodes, their statuses | `tree_parse_line`, `tree_node_find`, `tree_node_add` | lines of `diff -qrs` | no line lost or made up; statuses accumulate in directories |
| **arguments** `args.c` | left, right, type | `gnome_init_and_parse_args`, `standardise_arg`, `categorise_args` | `stat`; called by main and the file dialog | the table in `todo:501-507`; sides are kept |
| **file dialog** `file.c` | one static dialog, two browsers, `FileInfo`, `BrowseInfo` | open, browse, OK, cancel, destroy | `mdi_add_diff`, preferences | at most one dialog and one browser per side; no dangling pointer |
| **options** `options.c`, `global.c`, `preferences.c` | the shared `Options`, the dialog, the configuration file | get, edit in place, apply, save | all views read the shared options | the file says what the options say; cancel undoes |
| **translation library** `intl/` | bindings, current domain, entries for catalogues, alias table, hash tables of files | `bindtextdomain`, `textdomain`, `dcgettext` | environment, files, malloc | the best catalogue of the locale asked for answers; every search ends; failures harm no table |
| **option parsing library** `popt/` | stack of argument vectors, leftovers, aliases, line buffer | `poptGetNextOpt`, `poptStuffArgs`, `poptReadConfigFile`, `poptPrintHelp` | the application's callbacks, files | an alias reads as its text; parsing ends; a line means what it says |
| canvas, progress, style, exclude | widgets | drawing, layout | - | nothing that changes shared state |
| `junk/`, `a/`, `b/` | - | - | - | old experiments; sample trees to compare |

## Modules

    Spawn <--EXTENDS-- Views --INSTANCE--> Display            DiffTree
      |                  |                                       |
    MCSpawn           MCViews                                MCDiffTree
                      ViewsProofs                          DiffTreeProofs

    Args  Dialogs  Menus  Preferences    DomainMap <-- Bindings  Aliases  Catalogs  FindMsg
       \      |      |      /                             \        |        |       /
            Interface <---- MCInterface                           Gettext <---- MCGettext
                ^                                                    ^
        InterfaceProofs --> PreferencesProofs                  GettextProofs

    PoptWords <--EXTENDS-- Popt --INSTANCE--> CommandLine --EXTENDS--> PoptWords
                             ^
                             | EXTENDS
                         PoptProofs          PoptConfig
                             ^                    ^
                             | EXTENDS            | EXTENDS
                         PoptExec          PoptConfigProofs      PoptHelp
                                \                |               /
                                     Parsing <---- MCPopt
                                        ^
                                  ParsingProofs

Interface, Gettext and Parsing instantiate several components that share no
variable, each with its constants.  A behaviour is one of one part, which the
variable `part` names for good; the other parts stay in one initial state, so
that the states of the parts add up and are not multiplied.  An invariant of
such a module is the conjunction of what its parts state, and the same part may
be there twice with different constants (Preferences as `Shared` and `Alone`,
Aliases with memory and `ShortOfMemory`, Popt as `Parser` and `Loop`).
They leave all constants open, which is what the theorems about them are stated
for; MCInterface, MCGettext and MCPopt give the constants values and nothing
else.  The conditions on the constants are definitions of the components, which
Interface, Gettext and Parsing assume.  Parsing has the parser three times and
takes it from PoptProofs, the parser with its lemmas, so that each lemma is
proved once and cited for each (`Parser!StepReads`, `Loop!StepReads`); the
reading of a file it takes from PoptConfigProofs, and Interface the preferences
from PreferencesProofs, for the same reason.

### Spawn: run_diff and its pipes

| Variable | Code |
|---|---|
| `stream[r]` | the `FILE*` as the caller of `run_diff` has it; `"forked"` is the time between `fork` and the return of the parent branch |
| `child[r]` | the forked process, up to zombie and reaped |
| `wend[r]`, `rend[r]` | the processes that hold each end of the run's pipe |
| `sent[r]`, `got[r]` | `fgets` buffers written by diff and read by gdiff |
| `up`, `peak` | gdiff runs; history: the most children alive when gdiff reaped |

`PipeFails`, `ForkFails`, `Fork` and `Return` are the paths through
`run_diff`; `Fork` and `Return` are two actions because the child runs
meanwhile, but no other step of gdiff falls between them (`CanCall`):
`run_diff` dispatches no event.  `Read` and `Eof` are the turns of a caller's
`fgets` loop.  `Exec` and `ExecFails` are the child branch; the child closes
neither end, so diff holds the read end of its own pipe.  `Write`, `Finish`,
`Die` and `BecomeZombie` stand for diff and the kernel and are external.

### Views: the window, the loads and the stack

Views extends Spawn: a view's run is its diff, and every step is a step of
Spawn for Spawn's variables or leaves them alone (`ViewsImplementSpawn`).

| Variable | Code |
|---|---|
| `stack` | the loads in progress on the C stack; only the last one executes |
| `at[v]` | where the load stands: the pumps at `compare.c:212`, `224` and `364`, inside `run_diff`, before `gtk_clist_freeze`, in the read loop |
| `drawn[v]` | the `drawn` flags of `GtkCompare` and `GtkDiffTree` |
| `rows[v]`, `frozen[v]` | the list, and whether it is between freeze and thaw |
| `tab[v]`, `active` | MDI children and the active view |
| `loop`, `freed` | `gtk_main`; which views' `DiffOptions` are freed |

`Dispatching` says when callbacks can run: `gtk_main` has control, or the load
on top of the stack pumps.  Then views are drawn (`DrawCompare`, `DrawTree`)
or the user acts (`Open`, `Select`, `CloseDisplay`, `ExitMenu`,
`CloseWindow`).  `PumpEnds` through `TreeCrashes` are the steps of a load.
`CompareCrashes` is `fgets` on NULL; `TreeCrashes` and `TreeCloses` are the two
outcomes of walking nodes whose allocator has been freed (`node.c:172-176`).

**Display** is the abstract specification of a compare view: it shows the row
that asks to wait, then in one step the complete comparison of a diff that has
ended, and never changes again.  The refinement mapping shows a frozen list as
what it was before the freeze.

### DiffTree: the tree of diff -qrs

`nodes` is the sequence of tree nodes in the order of their creation, which is
also the order of siblings; `todo` the paths whose lines are still to come;
`added` a history of the calls.  `Parse` is `tree_parse_line`.  `Add` is
`tree_node_add`: instead of following the recursion it names its result: the
route of nodes that were found, which gain the status, and one new node per
remaining part, each below the other.  The third branch of `Parse`, for a path
below neither root, is left out: diff writes none.  `NewNode` gives each of them the base
name of the whole path, as the code does (`node.c:237`).  `surplus` is what is
left of the right root when the left root is a string prefix of it.

### Args: the two paths

`fs` is what `stat` finds, and `Change` lets others change it at any time.
`Parse` and `Refuse` are the branches of `gnome_init_and_parse_args`;
`StatLeft`, `StatRight` and `StatJoined` are the three looks of
`categorise_args` at the file system, each with what follows from it.  A path
is a sequence of names, so that `standardise_arg` keeps the names and drops
the slashes; the empty sequence is the empty string.  Args is the part
"arguments" of Interface, where its properties are stated and run.

### Dialogs: static pointers and who destroys what

`Widget` is the set of addresses at which dialogs are made, and used again
when they are gone.

| Variable | Code |
|---|---|
| `static` | `dialog` and the browsers of `file.c`, `prefs` of `options.c`, `about` of `menu.c` |
| `kind[w]`, `parent[w]` | the dialog at an address, and the window it was opened from |
| `nulls[w]`, `kills[w]` | the handlers of its signal "destroy": `gtk_widget_destroyed` and `destroy_browse`/`destroy_prefs` |
| `filled`, `infos` | the entries of the file dialog; the `BrowseInfo`s |
| `option`, `checked` | the static `option` of `menu.c` and the check box of the question |
| `nest`, `loop`, `window`, `up` | the main loop of Views, reduced to who dispatches events |
| `stale` | history: a destroyed MDI was handed to `mdi_add_diff` |

`Create` is what the menu does when its pointer is NULL, `Destroy` is
`gtk_widget_destroy` with all handlers that run in it.  Each button of the
dialogs is an action; loads and the question may be nested in any order.

### Menus: what can be chosen

`sensitive` holds the items of the main menu that can be chosen, `childMenu`
the menu that the active child brought.  `SetMenuState` is called when the MDI
tells of a new view (`Signalled`) and by `mdi_close_view`.  Leaving by the
menu may or may not be told of: the views go, whether a signal follows is
GnomeMDI's affair.

### Preferences: several gdiffs, one file

`opts[g]` is the copy of the options that a dialog edits in place, `file` the
configuration file, `cache[g]` what the `gnome_config` of a process remembers
of it.  A text is the sequence of its fields; colours lose their low bytes in
the file, and the default of the theme is a mark (`PIXEL_DEFAULT`).
`OpenDialog` reads a fresh copy and dies on a style without its comma;
`CheckToggled`, `RadioPressed` and `ColourChanged` write through the pointers
of the widgets; `Apply` and `Ok` write every key.  `Restart` ends and starts a
gdiff at any point; `HandEdit` changes one key of the file, once.

### Bindings and DomainMap, Catalogs, Aliases, FindMsg: intl/

**Bindings** is the sorted list of `bindtextdomain`, searched to the first
greater name, and the current domain of `textdomain`, with every allocation
that can fail.  It implements **DomainMap**, a map from domains to
directories.

**Catalogs** is the way of `dcgettext` through the locales of a list: entries
for file names (`_nl_make_l10nflist`), which the locales that strip to them
share, and their loading on first use.  The normal form of a codeset is an
entry of its own also when the codeset is written that way and a modifier
follows (`explodename.c:106`).  A locale is the function from its
parts to their values and a file name the set of parts it shows, so that
names are never put together.  `Turn` is one turn of the loop of `dcgettext`,
`FoundIn` the search of an entry and its successors.

**Aliases** is `_nl_expand_alias`: a table that is searched by bisection and
extended from the next file of the path as long as a name is not in it.
`ReadAliasFile` has the outcomes of a failed `malloc`: a table that could not
be extended, and a file left half read.  It sorts the table only for a file
that added something, so that a table left unsorted by a failure stays so until
such a file is read.

**FindMsg** is `find_msg`: double hashing with the arithmetic of the code, or
bisection.  `Table` fills a file as msgfmt does, each message in the first free
entry of its sequence of probes, `ProbeAt`; the assumption on the sizes says
that these probes get to every entry, as they do for the sizes that msgfmt
chooses, which are primes.

### PoptWords, Popt and CommandLine: poptGetNextOpt

A word is a sequence of strings: dashes, a name or letters, "=" and a value.
`stack` is `optionStack`; each frame has its words, the letters still to be
read in a group (`nextCharArg`), the argument last read (`nextArg`) and the
alias it belongs to.  A turn of the loop of `poptGetNextOpt` is a step,
because an option with a callback leads to another turn within the same call,
with the same `longArg`.

A lone dash that is no option is looked for among the aliases and execs as the
letter that is none, and the last of the long ones has that letter too
(`NoLetter`).  What is then taken for further letters lies behind the end of
the word: nothing, or the word that follows it in memory (`Behind`); what may
stand behind the last word, the environment, is left out.

**CommandLine** is what the documentation promises: a list of words, in which
the text of an alias stands in the place of the alias.  The refinement mapping
lays the frames of the stack behind each other.  popt keeps this promise but
for five kinds of turns, which `Departs` lists; each is a peculiarity of the
code and not of the model (finding 9).

### PoptExec: reading again

An option may be an exec: another program then runs in place of this one, with
the path of this one (if `findProgramPath` finds it), a semicolon, the options
read so far and the arguments on its command line.  `final` is
`finalArgv`, as the options and not yet as their words (`Words`), `doExec` the
exec to be run.  `Reset` is `poptResetContext` after the end or an error,
`RunsOther` is `execCommand`; the other program parses with popt, knows the
same options, and the later execs as options, but no aliases (`Other`).  When
the program cannot be run the call just ends.

### PoptConfig: alias files

`buf` is the one buffer for logical lines, with what earlier lines left in it;
`dst` is where the next character goes, which after a line is behind that
line's white space.  `ConfigLine` cuts the buffer into fields as the code
does, over the end of the line where the code does, and adds an entry.
`ParseArgvString` is a recursive function over the characters, as the proofs
need it.  "wild" is the state after a
search that left what was ever written: the outcome depends on what the stack
held.  The assumption says that a file is a text, without NUL, and that the
name of the program is a word that does not look like a comment.

### PoptHelp: breaking help texts

`help` is the pointer into the text and `pieces` what each line shows of it;
`LastSpace` and `Break` are the two loops that walk back from the end of a
line.

## Runs

| Run | Asks | Bounds, and why they are enough |
|---|---|---|
| `spawn` | End of file, drained output, zombies, progress of reads | Three runs: the fewest with one reader, one inheritor and one dead child left over.  A pipe that holds one line and a diff of two: writers block |
| `views` | Safety of loads, lists, options, pipes; refinement of Display | Two compare views and a directory view: loads nest three deep with each kind on top.  c1 prints three lines, one of them no row |
| `views_live` | Drawn, loaded, ended | Two compare views, whose loads nest in either order |
| `tree_live` | Loads end | A directory view whose diff fills its pipe, and a compare view |
| `difftree` | Nothing lost, nothing made up, statuses accumulate | Up to four paths of up to three parts over two names: paths share all, part and none of their directories; three kinds of line: matched, right only, error |
| `interface` | Sides of a comparison kept, the table followed; pointers agree with dialogs, browsers die with their dialog, the box means the option; a save leaves untouched options alone, gdiff reads what it wrote; items fit the active view | Arguments: every kind of argument for each side and one too many; each path a file, a directory, or nothing.  Dialogs: three addresses for five kinds of dialog, so that a file dialog has both its browsers and addresses are used again; two loads or questions nested.  Preferences: two gdiffs, the fewest that overwrite each other, with a check button and a style; and one gdiff with every kind of option, a number beyond the buttons of its group and more colours.  Menus: two directories and two files, so that each kind is left for the same kind, for the other and for none |
| `gettext` | The bindings are a map; aliases and messages are found and every search ends; the best catalogue as written answers, and catalogues stay | Bindings: four domains, a new one goes to the head, the middle and the end; three directories, one of them the default and one relative.  Aliases: three files, two of them enough to read out of order and one more that may be missing; the first table holds two of up to six aliases; with memory, and where strings cannot be copied at any line.  Catalogues: locales that share all, part and none of their names, an alias, a modifier, C in a list; every filling of five files by two messages.  Messages: three, with fifteen hash values in a table of five: every start with every step; and no table |
| `popt` | Aliases read as their text; what is read twice reads the same; parsing and printing end; entries are what lines say; help texts stay whole | Command lines of up to two words out of eighteen, of three when the first uses an alias, one vector stuffed at any moment, a depth of six that is never reached.  Aliases that use themselves and each other, on a stack of four, which is reached.  Lines of up to three words, with an exec first or last where there are three, read again by a context that is reset or by another program.  Files of two lines of seventeen kinds and an unfinished one: each kind stands behind each other one in the buffer; all 3905 expansions of up to five characters: a letter, both marks, backslash, space.  Help texts of up to ten characters in lines of one to four: words shorter, as long and longer than a line |
| `null_stream` | *violated*: `gtk_compare` reads NULL when `pipe` or `fork` fails | |
| `file_status` | *violated*: files have one status | two paths of two parts |
| `root_dir` | *violated*: directories can be compared, `/` too | |

Deadlock is checked wherever the system never stops.  It may stop in Views,
Dialogs and Menus, when gdiff ends; in Spawn and Args, when all is done; in
Preferences, when every gdiff has died; in Bindings, after the crash on a
domain without a name; in Popt, PoptConfig and PoptHelp, at the end of the
command line, of the file and of the text.

In `spawn` and `views` gdiff may crash, and diff may fail to start or be
killed, at any point.  The checks of arguments hold with the file system changing
between the stat calls, except for `TableKept`, which speaks of undisturbed
sessions.

### Fairness

`ChildFairness`: the system's scheduler runs the children; nothing obliges a
diff to be killed.  `WF(Load(v))`: gdiff is scheduled, and a pump ends, as a user
does not click without end.  `WF(Draw(v))`: the loop dispatches the expose
event of the active view.  `WF(MainReturns)`: `main` goes on once `gtk_main`
has returned.  The user is never obliged to do anything, and no strong
fairness is needed.

In Parsing, `WF(Calls)` says that an application calls `poptGetNextOpt` until
there is nothing left to read, as popt.3 tells it to; `WF(Turns)` and
`WF(Prints)` there, and `WF(Expands)` and `WF(Searches)` in Gettext, that a C
function that has been called runs.  Nothing obliges a program to look up a
name or a message.  Interface has no liveness property and states no fairness.

### Taken from GTK+ 1.2 and GNOME libs

These libraries are not in the repository.  The model uses: the emission of a
signal holds a reference to its widget, so that a load goes on when its view
is closed; only the active notebook page is mapped and drawn;
`gtk_main_quit` ends the innermost `gtk_main`, and `gtk_main_iteration` pushes
none; `gtk_events_pending` loops dispatch what `gtk_main` would;
`gtk_widget_destroy` runs the handlers of "destroy" at once; a modal dialog
takes all clicks; GnomeMDI shows the menu of the active child and emits
`view_changed` for a new active view; gnome-config may answer from memory.

## What is proved

TLAPS proves these for all values of the constants under the named
assumptions (`SpawnAssumption`: finitely many runs, a pipe of at least one
line; `ViewsAssumption`, `DiffTreeAssumption`,
`InterfaceAssumption`, `GettextAssumption`, `ParsingAssumption`: well-formed
constants), any number of runs, views, lines and paths of any depth, dialogs,
options, processes, tables, files, aliases and texts.

**ViewsProofs, Spawn.**  `SpawnTypeCorrect`, `Isolation` (WriteEndIsolation),
`DrainedBeforeClose` (DrainedAtClose), `ZombiesBounded` (ZombieBound).  The
first two rest on `SpawnInv`: between fork and return only gdiff and the run's
child hold a write end, afterwards only the child; a child holds its own write
end until it exits.  Isolation alone is not inductive: a fork would hand a
write end gdiff still held to a second child, were it not known that gdiff
holds none except inside `run_diff`.  ZombieBound is inductive by counting: a
call of `run_diff` adds a child, and its wait takes one dead child if there
is one.

**ViewsProofs, Views.**  `ViewsImplementSpawn` gives everything above to Views.
`IInv` adds `StackInv` (loads on the stack are distinct, all but the last wait
in a pump, exactly they are under way, an undrawn view is idle), `LoadInv`
(where a load stands tells the state of its stream, pipe ends and list) and
`FreedInv` (freeing comes last).  From it follow `NoReentry`,
`HalfListsStayHidden`, `OptionsOutliveLoads`, `PipesAreClosed` and, with a step
simulation per action, `ViewsImplementDisplay`.

**DiffTreeProofs.**  `AddStep` describes one call of `tree_node_add` by what
stays, what gains the status and where new nodes hang; `TypeCorrect`,
`Accumulation`, `NoLoss` and `NoInvention` are then inductive on it.
For `NoLoss` the chain of a new line is put together from the route that was
found and the nodes that were made below it; the chains of earlier lines stay,
because no step moves or renames a node or takes a status away (`AddedTo`).

**InterfaceProofs, PreferencesProofs.**  A behaviour of
Interface is one of each of its parts (`ImplementsDialogs` and the like), so
what is proved of a part holds of the whole.

*Arguments* (`SidesStay`, `TableHolds`).  `ArgsInv` adds to the types that the
empty string names nothing, so that a file always has a base name; where the
two arguments stand while they may be swapped (`Sides`); and what has been seen
of them so far, which while nobody interferes is what there is (`Seen`).

*Dialogs* (`StaticsAlwaysAgree`, `ChildrenDieWithParents`, `MainLoopNeverStale`).
`PointersAgree` and `DiesWithParent` are not inductive: they forget the
handlers.  `WidgetsInv` says which handlers there are: a dialog resets its own
pointer and no other, a browser or the preferences are destroyed by a handler
of what they were opened from, only the file dialog and the window destroy
others, and at an address that is free no handler is left.  The last part is
what makes an address safe to use again.  For the question, the option on the
nest is the one that its check box stands for.

*Preferences* (`GdiffReadsItsOwn`, `SavesAlwaysFaithful`).  `PreferencesInv`
relates file, caches and copies: a process that is not behind has the file in
its cache (`CacheFits`); saved and read again, an option that its dialog did
not touch means what it meant in that cache (`CopyFits`), although a colour
has lost its low bytes; and until someone edits the file, it and all caches
are readable (`FilesReadable`).

*Menus* (`ItemsAlwaysFit`).  The state of the menus fits the active view as
long as gdiff runs, and the item greyed by its index is in a directory's menu.

**GettextProofs.**  `ListIsMap`: with the list in order (`BindingsInv`) a search
that stops at the first entry that is not smaller has seen the only place of
its domain, and every call is a step of DomainMap.  `TypeCorrect` and
`SearchesAlwaysFind` rest on `GettextInv`:

- The table of aliases holds what the files read so far say, nothing else
  (`AliasesInv`), and with memory all of it, sorted (`AllRead`); the table of
  doubled sizes always gets large enough (`GrownFits`).  Bisection in it is a
  function defined by recursion: `Recursion` shows that such a definition has
  a solution when the interval shrinks, `BisectFinds` that a name in a sorted
  table is in the half that is kept.
- The hash table is what msgfmt makes of the messages in their order
  (`TableHolds`): before each of them there was a free entry, as there are
  more entries than messages, and the entries probed before its own were
  taken.  A search has passed other messages only (`Searching`), so that at an
  empty entry it has missed none.
- A catalogue's entry has all that it is linked to among the entries (`Sound`),
  because a mask below a mask below is one below; entries are added and loaded
  and never dropped.

**PoptProofs, PoptConfigProofs, ParsingProofs.**  PoptProofs holds the lemmas
about one parser, PoptConfigProofs those about the reading of a file,
ParsingProofs the theorems about the library.

`TypeCorrect` rests on `Inv`, the conjunction of an invariant for each part.
For the parser it is its types with the places of all frames (`TypeInv`): what
is read next lies in the vector or just behind it, so that no word is read from
outside.  With nothing stuffed by the application the stack stays within its
array (`StackFits`), however aliases use each other: a turn pushes an alias
only on a stack that is not full.  A line read a second time starts from what
the first reading left in `finalArgv` (`AgainInv`); that those words are again
words is a property of `FlattenSeq`, which the library defines by recursion.

`HelpBroken` (BreaksHelp) says of every text and width that no word is cut,
lost or printed twice and that a line is wider than the room only where it has
no place to be broken.  The inductive invariant (`WordsInv`) is that the rest
of the text begins at a boundary of a word and that what was printed has the
words of the text before it, in their order.  The central lemma (`WordsCut`):
the words of a text that is cut where no word is are those of one half and then
those of the other; words are counted by where they begin.

`ReadsUnlessDeparts` is the refinement of CommandLine: *every* step of the
parser is one of CommandLine or of `Departs`, whatever the options, the aliases
and the depth.  The mapping lays the frames behind each other (`StackTodo`), so
each branch of a turn needs to know what of that list it takes: unwinding the
stack takes nothing (`StackTodoUnwound`), the argument of an option is the next
word of the list (`FromNextReads`) unless letters wait above it, and the text of
an alias is put in front of the rest (`HandleAliasReads`).  `TextsRead` states it
as a run checks it: where no turn departs, the line reads as its text
(ReadsAsText).  `Departs` is no wider than it must be: it is exact for the
lines of the part "loops", where each turn that departs is no step of
CommandLine.

`ConfigRead` (ReadsConfig) says of every file that the entries it adds are
those of its logical lines, as long as no line of the program lacks a field
(finding 10 is what happens then), and that the words of an alias are read back
however they were written.  What makes it hard is that popt has one buffer for
all lines, never cleared.  There are two invariants:

- `IInv`: of the buffer, the cells before some place m were written by lines
  before this one, and a string ends at m; behind m and this line nothing was
  ever written (`Held`).  So a search for the end of a field always stops,
  inside the buffer, and the place where the next character goes never gets
  ahead of the place where it is read.
- `LinesInv`: the buffer holds white space and then exactly the logical line so
  far, which the file defines by its backslashes and line ends (`TextIn`), and
  the entries are what the lines that are complete say (`StatedIn`).  That
  `ConfigLine`, which walks over the buffer with two pointers, cuts a line into
  the fields that its definition by starts and ends of words has, is `LineSays`.

The lemma for words, `WordsRead`: after any words that were read, a word that
is written with backslashes or in quotes is read as itself, because each
character it is written with either changes only the quotation or adds that
character.

No induction rule can be used for these recursions (see below); each argument
is by the least counterexample (`LeastNat`), from the well-foundedness of
inclusion among finite sets.

### Only model-checked

- The liveness properties (`ForkedIsRead`, `ActiveIsDrawn`, `LoadEnds`,
  `QuitEnds`, both `CallsReturn`): liveness under fairness is beyond this
  prover.
- `BestCatalogue` of Gettext.  It relates names that are made of different
  parts of different locales, and it does not hold for all of them (finding
  7).  A proof needs a description of the locales for which it does; the run
  has such locales.
- `ReadsAgain`.  It does not hold for all aliases and options (finding 9), but
  for those of the run.
- That no turn departs in the part "texts", the condition of `TextsRead`: it is
  a matter of the options, aliases and lines, and the run has such as depart
  nowhere.
- The violations.

## What the checks found

Three findings are kept as runs that TLC must find violated:

1. `compare.c:276`: a compare view reads from NULL when `run_diff` fails;
   the directory view asserts against it (`null_stream`).
3. `node.c:237`: each node made for a path gets the base name of the whole
   path; a leaf can gather the statuses of two files, against `node.h:32`
   (`file_status`).  a/x makes two nodes named x, which x/x then finds.
5. `args.c:181`: "/" is stripped to the empty string (`root_dir`).

The others are stated by a definition of a module, which no run checks because
the code does not keep it; named in a `.cfg`, with the constants said here, it
brings up the counterexample:

2. `gd.c:48`: "Tree will free the diff later"; it never does (`TreeFreesDiff`
   of Views).
4. `node.c:123`: with roots like src and src.orig right-only files are taken
   for left-only ones, below a directory that does not exist
   (`RightOnlyIsRight` of DiffTree).
6. `file.c:162`: `destroy_browse` frees the user data of the file selection;
   the `BrowseInfo` is the user data of the button, and stays
   (`BrowseInfoFreed` of Dialogs).
7. `intl/finddomain.c:113`: a locale that is looked up a second time is found
   by its name as written, an entry without the normal form of its codeset; a
   message that is only in the catalogue with the normal form is found the
   first time and not again (`NormalTried` of Catalogs).  In the same way an
   alias that is also the language of another locale, german beside german_DE,
   is no longer expanded once the other locale was looked up: translations
   that were found before are not found after (`BestAsWritten`, with a locale
   of the language "german" and a territory among `Locale` and `Languages`).
8. `intl/localealias.c:283`: a table that could not be extended is written to
   all the same (`TableFits` of Aliases, with "table" among `Fails`); after a
   file that was left half read (lines 280 and 289) the table is not sorted, and aliases
   in it are missed until another file adds some (`NoneMissed`, with "string").
9. popt: `popt.c:349` drops aliases nested too deeply instead of reporting
   them (`TooDeepReported` of Popt, with a `Depth` that the aliases reach);
   `popt.c:397` gives the value behind = to a later option of the same call
   (`OwnArgument`); `popt.c:444` hands an old argument to callbacks of options
   without one (`NoneGetsNull`); `popt.c:583` lets `poptStuffArgs` pass the end
   of the stack (`StackFits`, with as many `Stuffed` vectors as `Depth`).
   An alias does not read as its text (`ReadsAsText`) in the turns of
   `Departs`, and in no others (`ReadsUnlessDeparts`): the two first of the
   above; `popt.c:403` forgets letters when an argument is sought further down
   (with "-b -v" in one word of the text of an alias a, and an alias b whose
   text ends in an option with an argument, for the line -a f); `popt.c:429`
   forgets the letters behind an exec; `popt.c:184` takes a lone dash that is
   no option for the last long alias, and what lies behind the dash for
   letters.
   What is read again differs (`ReadsAgain` of PoptExec) in four cases:
   `popt.c:101` skips the first word after a reset, also when the context
   was told to keep it (`KeepFirst`); `popt.c:460` writes the option of a lone
   dash as --, which ends the options (with that word in the lines);
   `popt.c:462` leaves out the argument of an option that has no variable
   (with `Stored` empty); under POSIXLY_CORRECT the path and the semicolon of
   `popt.c:214` are arguments that end the options, so that the other program
   reads none of them (with `Posix`).
10. `popt/poptconfig.c:37`: the search for the end of a field runs over the
    end of the line, into what a longer line left behind (`RestOfItsLine` of
    PoptConfig).
11. `popt/poptparse.c:92`: a quotation that does not end is no error
    (`MismatchReported` of PoptConfig).
12. `popt/popthelp.c:105`: with no column left for the text the loop that
    breaks it never ends (`HelpEnds` of PoptHelp, with 14 of 19 columns taken).

Nothing was found against the static pointers of the dialogs, the menus, the
preferences, the bindings and `find_msg`: their properties hold.

## Not modelled

- `fdopen` failing and `run_diff2` (called from nowhere); the exit status of
  diff, which the code drops (`spawn.c:85`), so that a report cut short by a
  signal looks like a whole one; the read end that the child keeps
  (`spawn.c:88`), which matters when gdiff has died.
- The colouring of rows in one or two panes, labels, sizes and the layout of
  dialogs: no later step depends on them.
- Filling the directory view with rows: the body of `tree_dialog_traverse` is
  commented out, and so is saving the list, so `get_current_selection`, the
  double click and Compare find no row.
- `canvas.c`, `progress.c`, `style.c` and `exclude.c`: they draw, or are called
  from nowhere (the one call of `exclude_dialog` is commented out).
- Paths that alias through `..`, links and mounts: `args.c` compares none.
- What becomes of a diff whose gdiff has died (Spawn lets it go on): no
  document says what it should do.
- Of `intl/`: the headers of catalogue files and their byte order, the
  wrappers for other names and systems (`cat-compat.c`, `intl-compat.c`).
- Of `popt/`: how the tables of the help and the usage message are laid out;
  where `findme.c` looks for the program (the model takes either outcome).
- `junk/` (earlier prototypes, and GTK's own test program), `a/` and `b/`
  (excerpts of a kernel to try gdiff on) are not part of gdiff.  They are more
  than half of the C code in `src/`; of the program and its two libraries, some
  10500 lines with their headers, licence texts and menu tables, the
  modules stand for about four tenths, and what is left is mostly the building
  of widgets and the boilerplate of GTK classes, in which nothing is decided.

## Plan

Done, in order of importance: Spawn, Display and Views, and DiffTree with
their proofs; Args, Dialogs, Menus and Preferences with theirs; Catalogs,
Bindings, Aliases and FindMsg with theirs, but for `BestCatalogue`; Popt,
PoptExec, PoptConfig and PoptHelp with theirs, but for `ReadsAgain`.
What is left:

1. `AnswerFits` of Catalogs for locales whose parts have marks of their own
   and whose aliases are no languages.
2. `ReadsAgain` for options that keep their arguments.
3. Conditions on options, aliases and lines from which it follows that no turn
   departs from CommandLine.
4. That the chain of a line (`NothingLost`) is named by all the parts of its
   path, for reports on which the base names do no harm.
