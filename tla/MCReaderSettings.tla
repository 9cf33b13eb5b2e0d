-------------------------- MODULE MCReaderSettings --------------------------
(***************************************************************************)
(* Instances of ReaderSettings for TLC.  Each setup is one reader, the     *)
(* card types applied to it and the settings its caller makes, with values *)
(* on both sides of every bound.                                           *)
(***************************************************************************)
EXTENDS ReaderSettings

Both(options) == options \X BOOLEAN

Setup(reader, product, cards, options, waits, most, faulty) ==
  [reader |-> reader, product |-> product, cards |-> cards, options |-> options,
   waits |-> waits, field |-> waits # {}, calls |-> most, faults |-> faulty]

Timeouts == {<<"TIMEOUT_VALUE_US", 300>>, <<"TIMEOUT_VALUE_MS", 5>>,
             <<"SETMINFDT", TRUE>>, <<"SETMINFDT", FALSE>>}

Rates == {<<"TXDATARATE", R>> : R \in {0, 1, 3, 4}} \cup {<<"RXDATARATE", R>> : R \in {0, 2, 4}}

Coding == Both({"PARITY", "TXCRC", "RXCRC", "ASK100"})

Bits == Both({"CLEARBITSAFTERCOLL"}) \cup {"TXLASTBITS", "RXALIGN"} \X {7, 8}

Analogue == {"RXDEAFBITS", "MODINDEX"} \X {5, 64}

Host == {<<"TIMING_MODE", "FDT">>, <<"TIMING_MODE", "COMM">>, <<"FIELD_OFF_TIME", 0>>,
         <<"RXBUFFER_STARTPOS", 2>>, <<"RXBUFFER_STARTPOS", 8>>, <<"TXBUFFER_LENGTH", 7>>,
         <<"BAL_CONNECTION", 3>>, <<"UNKNOWN", 0>>, <<"SERIAL_BITRATE", 115200>>,
         <<"SERIAL_BITRATE", 1>>}

Waits == {<<"us", 20>>, <<"us", 100>>, <<"ms", 2>>, <<"days", 1>>}

Rc523Setups ==
  { Setup("RC523", "PN512", {"A", "FELICA", "CURRENT"}, Rates \cup Timeouts, {}, 3, 1),
    Setup("RC523", "PN512", {"A", "B", "CURRENT", "I15693"}, Coding \cup Rates, {}, 3, 0),
    Setup("RC523", "PN512", {"B", "CURRENT"}, Bits \cup Analogue, {}, 3, 1),
    Setup("RC523", "PN512", {"MPI", "MPI_212", "FELICA_424", "CURRENT"},
          Rates \cup {<<"TXCRC", FALSE>>, <<"TIMEOUT_VALUE_MS", 5>>}, {}, 3, 0),
    Setup("RC523", "PN512", {"MPT", "MPI_424", "B"},
          Both({"ACTIVEMODE", "RXMULTIPLE", "MFHALTED", "DISABLE_MF_CRYPTO1"}), {<<"ms", 2>>}, 3, 0),
    Setup("RC523", "PN512", {"A", "FELICA"},
          {<<"TIMEOUT_VALUE_MS", 5>>, <<"TIMEOUT_VALUE_MS", 39587>>, <<"FIELD_OFF_TIME", 39600>>},
          Waits, 3, 1) }

Rc663Setups ==
  { Setup("RC663", "CLRC663", {"A", "FELICA", "CURRENT"}, Rates \cup Timeouts, {}, 3, 1),
    Setup("RC663", "CLRC663", {"A", "CURRENT"},
          Both({"PARITY", "TXCRC"}) \cup Rates \cup {<<"TXLASTBITS", 7>>}, {}, 3, 0),
    Setup("RC663", "CLRC663", {"A", "B", "CURRENT"}, Coding \cup Rates, {}, 3, 0),
    Setup("RC663", "CLRC663", {"MPI", "CURRENT"},
          Coding \cup Rates \cup {<<"TXWAIT_US", 200>>, <<"TXWAIT_US", 65535>>}, {}, 3, 0),
    Setup("RC663", "CLRC663", {"A", "B"}, Bits \cup Analogue \cup {<<"MODINDEX", 205>>}, {}, 3, 0),
    Setup("RC663", "CLRC663", {"I15693", "EPCUID"},
          {"TXDATARATE"} \X {10, 16} \cup {"RXDATARATE"} \X {12, 15, 16}
            \cup {"SUBCARRIER"} \X {"DUAL", "QUAD"}
            \cup {"SYMBOL_START"} \X {"OFF", "LSOF", "SOF"}
            \cup {"SYMBOL_END"} \X {"CEOF", "OFF", "other"}, {}, 3, 0),
    Setup("RC663", "CLRC663", {"I15693", "I18000P3M3", "CURRENT"},
          {<<"RXDATARATE", 13>>, <<"RXDATARATE", 19>>, <<"TXCRC", FALSE>>}
            \cup {"SUBCARRIER"} \X {"SINGLE", "QUAD"}
            \cup {"SYMBOL_START"} \X {"PREAMBLE", "FSYNC", "other"}, {}, 3, 1),
    Setup("RC663", "SLRC610", {"A", "I15693", "other"},
          {<<"LOADREG_MODE", TRUE>>, <<"FRAME_SYNC", 0>>, <<"TXDATANUM", 12>>,
           <<"FIFOSIZE", 512>>, <<"FIFOSIZE", 255>>, <<"MAX_PRECACHED_BYTES", 300>>, <<"FIFOSIZE", 1>>},
          {}, 3, 0),
    Setup("RC663", "CLRC663", {"A"}, {<<"TIMEOUT_VALUE_MS", 5>>}, Waits, 3, 1) }

MCSetups == Rc523Setups \cup Rc663Setups
              \cup {Setup(r, "CLRC663", {"A"}, Host, {}, 3, 0) : r \in {"RC523", "RC663"}}
=============================================================================
