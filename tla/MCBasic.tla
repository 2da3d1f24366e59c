------------------------------ MODULE MCBasic -------------------------------
(***************************************************************************)
(* Tables, settings, streams over memory and files, copies of files and    *)
(* unit tests.                                                             *)
(*   table:    four keys: with two lists two of them collide, with one     *)
(*             list all do;                                                *)
(*   settings: two sections that collide, and two keys that collide;       *)
(*   memory:   a stream and a clone of it over up to three bytes;          *)
(*   string:   the same over a string;                                     *)
(*   copy:     a buffer of two bytes and files of up to five: full and     *)
(*             partial buffers;                                            *)
(*   file:     two streams that read and write a file of up to two bytes;  *)
(*   gz, bz2:  one such stream at a time, of a compressed file;            *)
(*   unit:     a suite with a suite of one test and one more test.         *)
(* The parts share no state: a behaviour is of one of them, and the other  *)
(* ones stay as they were created.                                         *)
(***************************************************************************)
EXTENDS HashTable, TLC

CONSTANTS k1, k2, k3, k4, v1,
          Sections, g1, SectionHash, SectionSize,
          EntryKeys, EntryHash, KeySize, Unset,
          Ids, s1, ByteValues, MaxBytes, Wrap, null,  \* streams
          FileIds, MaxFile, Directions, Packed,  \* streams of files
          buf_sz, FileSizes, Partial, MaxSize,   \* copies
          Root, Tests, SuiteTests, outer, inner, t1, t2

MCHash == [k \in Keys |-> CASE k = k1 -> 0 [] k = k2 -> 4 [] k = k3 -> 5 [] k = k4 -> 3]
MCSectionHash == [s \in Sections |-> IF s = g1 THEN 1 ELSE 3]
MCEntryHash == [k \in EntryKeys |-> IF k = k1 THEN 7 ELSE 5]
Symmetry == Permutations(FileIds)
MCSuiteTests == (outer :> <<inner, t2>>) @@ (inner :> <<t1>>)

VARIABLES part,
    m_section_string_hash_table, m_section_name, m_key_string_hash_table, m_data_of_string,
    memory, memoryStream, memoryCall,
    content, fileStream, fileCall,
    source, dest, foreign, open, infile, outfile, offset, sz_read, sz_write, buf,
    copyPC, copyResult,
    frames, testPC, test, clean, simple, tree, cur, depth, outcome, order

settingsVars == <<m_section_string_hash_table, m_section_name, m_key_string_hash_table,
                  m_data_of_string>>
memoryVars == <<memory, memoryStream, memoryCall>>
fileVars == <<content, fileStream, fileCall>>
copyVars == <<source, dest, foreign, open, infile, outfile, offset, sz_read, sz_write, buf,
              copyPC, copyResult>>
testVars == <<frames, testPC, test, clean, simple, tree, cur, depth, outcome, order>>
allVars == <<part, vars, settingsVars, memoryVars, fileVars, copyVars, testVars>>

E == INSTANCE Settings WITH Keys <- EntryKeys, KeyHash <- EntryHash
M == INSTANCE MemoryStreams WITH Kind <- "memory", BeforeBegin <- FALSE,
        Bytes <- ByteValues, data <- memory, stream <- memoryStream, last <- memoryCall
W == INSTANCE MemoryStreams WITH Kind <- "string", BeforeBegin <- FALSE,
        Bytes <- ByteValues, data <- memory, stream <- memoryStream, last <- memoryCall
F == INSTANCE FileStreams WITH Kind <- "file", Ids <- FileIds,
        MaxBytes <- MaxFile, data <- content, stream <- fileStream, last <- fileCall
G == INSTANCE FileStreams WITH Kind <- "gz", Ids <- FileIds,
        MaxBytes <- MaxFile, Directions <- Packed, data <- content, stream <- fileStream,
        last <- fileCall
Z == INSTANCE FileStreams WITH Kind <- "bz2", Ids <- FileIds,
        MaxBytes <- MaxFile, Directions <- Packed, data <- content, stream <- fileStream,
        last <- fileCall
C == INSTANCE FileCopy WITH Sizes <- FileSizes, pc <- copyPC, result <- copyResult
U == INSTANCE UnitTest WITH m_tests <- SuiteTests, pc <- testPC

ASSUME MCAssumption ==
    /\ E!SettingsAssumption /\ M!MemoryStreamsAssumption /\ F!FileStreamsAssumption
    /\ G!FileStreamsAssumption /\ C!FileCopyAssumption /\ U!UnitTestAssumption

MCInit ==
    /\ part \in {"table", "settings", "memory", "string", "file", "gz", "bz2", "copy", "unit"}
    /\ Init /\ (part # "table" => m_size = 1 /\ m_not_found = v1)
    /\ E!Init
    /\ M!Init /\ (part \notin {"memory", "string"} => memoryStream[s1] # null)
    /\ F!Init
    /\ C!Init /\ (part # "copy" => source = C!NoFile /\ dest = C!NoFile)
    /\ U!Init

InTable(A) ==
    /\ part = "table" /\ A
    /\ UNCHANGED <<part, settingsVars, memoryVars, fileVars, copyVars, testVars>>
InSettings(A) ==
    /\ part = "settings" /\ A
    /\ UNCHANGED <<part, vars, memoryVars, fileVars, copyVars, testVars>>
InMemory(A) == A /\ UNCHANGED <<part, vars, settingsVars, fileVars, copyVars, testVars>>
InFile(A) == A /\ UNCHANGED <<part, vars, settingsVars, memoryVars, copyVars, testVars>>
OneStream == Cardinality({s \in FileIds : fileStream[s] # null}) <= 1
InCopy(A) ==
    /\ part = "copy" /\ A
    /\ UNCHANGED <<part, vars, settingsVars, memoryVars, fileVars, testVars>>
InTest(A) ==
    /\ part = "unit" /\ A
    /\ UNCHANGED <<part, vars, settingsVars, memoryVars, fileVars, copyVars>>

MCNext ==
    \/ InTable(Next)
    \/ InSettings(E!Next)
    \/ part = "memory" /\ InMemory(M!Next)
    \/ part = "string" /\ InMemory(W!Next)
    \/ part = "file" /\ InFile(F!Next)
    \/ part = "gz" /\ InFile(G!Next) /\ OneStream'
    \/ part = "bz2" /\ InFile(Z!Next) /\ OneStream'
    \/ InCopy(C!Next)
    \/ InTest(U!Next)

MCSpec == MCInit /\ [][MCNext]_allVars
-----------------------------------------------------------------------------
(* Settings: what GetStringEntry gives is what SetStringEntry was called   *)
(* with for this section and this key.                                     *)
EntriesMatch == E!EntriesMatch

(* MemoryStream and StringStream read and write at their own position and  *)
(* leave the other streams where they are.  What a MemoryStream returns is *)
(* what it read; what a StringStream returns is what it was asked for, if  *)
(* it read anything or is behind the end, and it read what was left.       *)
MemoryExact ==
    /\ M!ReadExact /\ M!WriteExact /\ M!OthersKept
    /\ [][(part = "memory" => M!Returned) /\ (part = "string" => W!Returned)]_memoryVars

(* What the streams of files say that they read and wrote they did read    *)
(* and write, and an error is kept until it is reset.                      *)
FilesExact == F!ReadExact /\ F!WriteExact /\ F!ErrorHolds

(* A copy of a file that succeeded has what the source had, nothing of     *)
(* another process is overwritten, and no descriptor is left open.         *)
CopiesExactly == C!CopiesExactly

(* TreeTestResult counts each test once, as it ended; what was set up is   *)
(* torn down, and nothing is executed after a test that left things        *)
(* unclean.                                                                *)
CountsExact == U!CountsExact /\ U!TornDown /\ U!NothingAfterUnclean
=============================================================================
