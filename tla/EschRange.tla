----------------------------- MODULE EschRange -----------------------------
(***************************************************************************)
(* The Unicode categories of src/src/esch_range.c.                         *)
(*                                                                         *)
(* tools/unicode/gencode.py writes two tables for each category, the low   *)
(* and the up bounds of its ranges, and a function that looks for a        *)
(* character in them.  Nothing but the position in the tables says which   *)
(* up bound belongs to which low bound.                                    *)
(*                                                                         *)
(* The tables are written here as the progressions they are made of: many  *)
(* scripts alternate upper and lower case.  Long tables are split by       *)
(* script.                                                                 *)
(***************************************************************************)
EXTENDS Naturals, Sequences

\* The progression of length count that begins at first.
Every(first, step, count) == [i \in 1 .. count |-> first + (i - 1) * step]

\* The linear search that all the functions share.
InRanges(ch, low, up) == \E n \in DOMAIN up : low[n] <= ch /\ ch <= up[n]

-----------------------------------------------------------------------------
\* Category Co: private use.

CoLow ==
  <<\hE000, \hF8FF, \hF0000, \hFFFFD, \h100000, \h10FFFD>>

CoUp ==
  <<\hE000, \hF8FF, \hF0000, \hFFFFD, \h100000, \h10FFFD>>

is_range_co(ch) == InRanges(ch, CoLow, CoUp)

-----------------------------------------------------------------------------
\* Category Ll: lowercase letters.

LlLowLatin ==
  <<\h61, \hB5, \hDF, \hF8>> \o Every(\h101, 2, 28) \o Every(\h13A, 2, 8)
  \o Every(\h14B, 2, 23) \o <<\h17A, \h17C, \h17E, \h183, \h185, \h188, \h18C,
  \h192, \h195, \h199, \h19E, \h1A1, \h1A3, \h1A5, \h1A8, \h1AA, \h1AD, \h1B0,
  \h1B4, \h1B6, \h1B9, \h1BD, \h1C6, \h1C9>> \o Every(\h1CC, 2, 9)
  \o Every(\h1DF, 2, 9) \o <<\h1F3, \h1F5>> \o Every(\h1F9, 2, 30) \o <<\h23C,
  \h23F, \h242>> \o Every(\h247, 2, 5)

LlLowGreek ==
  <<\h295, \h371, \h373, \h377, \h37B, \h390, \h3AC, \h3D0, \h3D5>>
  \o Every(\h3D9, 2, 12) \o <<\h3F5, \h3F8, \h3FB, \h430>>
  \o Every(\h461, 2, 17) \o Every(\h48B, 2, 27) \o Every(\h4C2, 2, 7)
  \o Every(\h4D1, 2, 44) \o <<\h561, \h1D00, \h1D6B, \h1D79>>

LlLowExtended ==
  Every(\h1E01, 2, 75) \o Every(\h1E9F, 2, 49) \o Every(\h1F10, 16, 11)
  \o <<\h1FB6, \h1FBE, \h1FC2, \h1FC6, \h1FD0, \h1FD6, \h1FE0, \h1FF2,
  \h1FF6>>

LlLowCoptic ==
  <<\h210A, \h210E, \h2113, \h212F, \h2134, \h2139, \h213C, \h2146, \h214E,
  \h2184, \h2C30, \h2C61, \h2C65, \h2C68, \h2C6A, \h2C6C, \h2C71, \h2C73,
  \h2C76>> \o Every(\h2C81, 2, 50) \o <<\h2CEC, \h2CEE, \h2CF3, \h2D00,
  \h2D27, \h2D2D>>

LlLowLater ==
  Every(\hA641, 2, 23) \o Every(\hA681, 2, 12) \o Every(\hA723, 2, 7)
  \o Every(\hA733, 2, 32) \o <<\hA77A, \hA77C>> \o Every(\hA77F, 2, 5)
  \o <<\hA78C, \hA78E, \hA791, \hA793>> \o Every(\hA7A1, 2, 5) \o <<\hA7FA,
  \hFB00, \hFB13, \hFF41>>

LlLowPlanes ==
  <<\h10428, \h1D41A, \h1D44E, \h1D456, \h1D482, \h1D4B6, \h1D4BB, \h1D4BD,
  \h1D4C5>> \o Every(\h1D4EA, 52, 9) \o <<\h1D6C2, \h1D6DC, \h1D6FC, \h1D716,
  \h1D736, \h1D750, \h1D770, \h1D78A, \h1D7AA, \h1D7C4, \h1D7CB>>

LlLow ==
  LlLowLatin \o LlLowGreek \o LlLowExtended \o LlLowCoptic \o LlLowLater
   \o LlLowPlanes

LlUpLatin ==
  <<\h7A, \hB5, \hF6>> \o Every(\hFF, 2, 28) \o Every(\h138, 2, 8)
  \o Every(\h149, 2, 24) \o <<\h17A, \h17C, \h180, \h183, \h185, \h188, \h18D,
  \h192, \h195, \h19B, \h19E, \h1A1, \h1A3, \h1A5, \h1A8, \h1AB, \h1AD, \h1B0,
  \h1B4, \h1B6, \h1BA, \h1BF, \h1C6, \h1C9>> \o Every(\h1CC, 2, 8)
  \o Every(\h1DD, 2, 9) \o <<\h1F0, \h1F3, \h1F5>> \o Every(\h1F9, 2, 29)
  \o <<\h239, \h23C, \h240, \h242, \h247, \h249, \h24B, \h24D, \h293>>

LlUpGreek ==
  <<\h2AF, \h371, \h373, \h377, \h37D, \h390, \h3CE, \h3D1>>
  \o Every(\h3D7, 2, 12) \o <<\h3F3, \h3F5, \h3F8, \h3FC>>
  \o Every(\h45F, 2, 18) \o Every(\h48B, 2, 27) \o Every(\h4C2, 2, 6)
  \o Every(\h4CF, 2, 45) \o <<\h587, \h1D2B, \h1D77, \h1D9A>>

LlUpExtended ==
  Every(\h1E01, 2, 74) \o Every(\h1E9D, 2, 49) \o <<\h1F07, \h1F15, \h1F27,
  \h1F37, \h1F45, \h1F57, \h1F67, \h1F7D, \h1F87, \h1F97, \h1FA7, \h1FB4,
  \h1FB7, \h1FBE, \h1FC4, \h1FC7, \h1FD3, \h1FD7, \h1FE7, \h1FF4, \h1FF7>>

LlUpCoptic ==
  <<\h210A, \h210F, \h2113, \h212F, \h2134, \h2139, \h213D, \h2149, \h214E,
  \h2184, \h2C5E, \h2C61, \h2C66, \h2C68, \h2C6A, \h2C6C, \h2C71, \h2C74,
  \h2C7B>> \o Every(\h2C81, 2, 49) \o <<\h2CE4, \h2CEC, \h2CEE, \h2CF3,
  \h2D25, \h2D27, \h2D2D>>

LlUpLater ==
  Every(\hA641, 2, 23) \o Every(\hA681, 2, 12) \o Every(\hA723, 2, 6)
  \o Every(\hA731, 2, 32) \o <<\hA778, \hA77A, \hA77C>> \o Every(\hA77F, 2, 5)
  \o <<\hA78C, \hA78E, \hA791, \hA793>> \o Every(\hA7A1, 2, 5) \o <<\hA7FA,
  \hFB06, \hFB17, \hFF5A>>

LlUpPlanes ==
  <<\h1044F, \h1D433, \h1D454, \h1D467, \h1D49B, \h1D4B9, \h1D4BB, \h1D4C3>>
  \o Every(\h1D4CF, 52, 9) \o <<\h1D6A5, \h1D6DA, \h1D6E1, \h1D714, \h1D71B,
  \h1D74E, \h1D755, \h1D788, \h1D78F, \h1D7C2, \h1D7C9, \h1D7CB>>

LlUp ==
  LlUpLatin \o LlUpGreek \o LlUpExtended \o LlUpCoptic \o LlUpLater
   \o LlUpPlanes

is_range_ll(ch) == InRanges(ch, LlLow, LlUp)

-----------------------------------------------------------------------------
\* Category Lm: modifier letters.

LmLow ==
  <<\h2B0, \h2C6, \h2E0, \h2EC, \h2EE, \h374, \h37A, \h559, \h640, \h6E5,
  \h7F4, \h7FA, \h81A, \h824, \h828, \h971, \hE46, \hEC6, \h10FC, \h17D7,
  \h1843, \h1AA7, \h1C78, \h1D2C, \h1D78, \h1D9B, \h2071, \h207F, \h2090,
  \h2C7C, \h2D6F, \h2E2F, \h3005, \h3031, \h303B, \h309D, \h30FC, \hA015,
  \hA4F8, \hA60C, \hA67F, \hA717, \hA770, \hA788, \hA7F8, \hA9CF, \hAA70,
  \hAADD, \hAAF3, \hFF70, \hFF9E, \h16F93>>

LmUp ==
  <<\h2C1, \h2D1, \h2E4, \h2EC, \h2EE, \h374, \h37A, \h559, \h640, \h6E6,
  \h7F5, \h7FA, \h81A, \h824, \h828, \h971, \hE46, \hEC6, \h10FC, \h17D7,
  \h1843, \h1AA7, \h1C7D, \h1D6A, \h1D78, \h1DBF, \h2071, \h207F, \h209C,
  \h2C7D, \h2D6F, \h2E2F, \h3005, \h3035, \h303B, \h309E, \h30FE, \hA015,
  \hA4FD, \hA60C, \hA67F, \hA71F, \hA770, \hA788, \hA7F9, \hA9CF, \hAA70,
  \hAADD, \hAAF4, \hFF70, \hFF9F, \h16F9F>>

is_range_lm(ch) == InRanges(ch, LmLow, LmUp)

-----------------------------------------------------------------------------
\* Category Lo: other letters.

LoLowEarly ==
  <<\hAA, \hBA, \h1BB, \h1C0, \h294, \h5D0, \h5F0, \h620, \h641, \h66E, \h671,
  \h6D5, \h6EE, \h6FA, \h6FF, \h710, \h712, \h74D, \h7B1, \h7CA, \h800, \h840,
  \h8A0, \h8A2, \h904, \h93D, \h950, \h958, \h972, \h979, \h985, \h98F, \h993,
  \h9AA, \h9B2, \h9B6, \h9BD, \h9CE, \h9DC, \h9DF, \h9F0, \hA05, \hA0F, \hA13,
  \hA2A, \hA32, \hA35, \hA38, \hA59, \hA5E, \hA72, \hA85, \hA8F, \hA93, \hAAA,
  \hAB2, \hAB5, \hABD, \hAD0, \hAE0, \hB05, \hB0F, \hB13, \hB2A, \hB32, \hB35,
  \hB3D, \hB5C, \hB5F, \hB71, \hB83, \hB85, \hB8E, \hB92, \hB99, \hB9C, \hB9E,
  \hBA3, \hBA8, \hBAE, \hBD0, \hC05, \hC0E, \hC12, \hC2A, \hC35, \hC3D, \hC58,
  \hC60, \hC85, \hC8E, \hC92, \hCAA, \hCB5, \hCBD, \hCDE, \hCE0, \hCF1, \hD05,
  \hD0E, \hD12, \hD3D, \hD4E, \hD60, \hD7A, \hD85, \hD9A, \hDB3, \hDBD, \hDC0,
  \hE01, \hE32, \hE40>> \o Every(\hE81, 3, 5) \o <<\hE94, \hE99, \hEA1, \hEA5,
  \hEA7, \hEAA, \hEAD, \hEB2, \hEBD, \hEC0, \hEDC, \hF00, \hF40, \hF49,
  \hF88>>

LoLowMiddle ==
  <<\h1000, \h103F, \h1050, \h105A, \h1061, \h1065, \h106E, \h1075, \h108E,
  \h10D0, \h10FD, \h124A, \h1250, \h1258, \h125A, \h1260, \h128A, \h1290,
  \h12B2, \h12B8, \h12C0, \h12C2, \h12C8, \h12D8, \h1312, \h1318, \h1380,
  \h13A0, \h1401, \h166F, \h1681, \h16A0, \h1700, \h170E, \h1720, \h1740,
  \h1760, \h176E, \h1780, \h17DC, \h1820, \h1844, \h1880, \h18AA, \h18B0,
  \h1900, \h1950, \h1970, \h1980, \h19C1, \h1A00, \h1A20, \h1B05, \h1B45,
  \h1B83, \h1BAE, \h1BBA, \h1C00, \h1C4D, \h1C5A, \h1CE9, \h1CEE, \h1CF5,
  \h2135, \h2D30, \h2D80>> \o Every(\h2DA0, 8, 8)

LoLowLater ==
  <<\h3006, \h303C, \h3041, \h309F, \h30A1, \h30FF, \h3105, \h3131, \h31A0,
  \h31F0, \h3400, \h4DB5, \h4E00, \h9FCC, \hA000, \hA016, \hA4D0, \hA500,
  \hA610, \hA62A, \hA66E, \hA6A0, \hA7FB, \hA803, \hA807, \hA80C, \hA840,
  \hA882, \hA8F2, \hA8FB, \hA90A, \hA930, \hA960, \hA984, \hAA00, \hAA40,
  \hAA44, \hAA60, \hAA71, \hAA7A, \hAA80, \hAAB1, \hAAB5, \hAAB9, \hAAC0,
  \hAAC2, \hAADB, \hAAE0, \hAAF2, \hAB01, \hAB09, \hAB11, \hAB20, \hAB28,
  \hABC0, \hAC00, \hD7A3, \hD7B0, \hD7CB, \hF900, \hFA70, \hFB1D, \hFB1F,
  \hFB2A, \hFB38, \hFB3E, \hFB40, \hFB43, \hFB46, \hFBD3, \hFD50, \hFD92,
  \hFDF0, \hFE70, \hFE76, \hFF66, \hFF71, \hFFA0, \hFFC2, \hFFCA, \hFFD2,
  \hFFDA>>

LoLowPlanes ==
  <<\h10000, \h1000D, \h10028, \h1003C, \h1003F, \h10050, \h10080, \h10280,
  \h102A0, \h10300, \h10330, \h10342, \h10380, \h103A0, \h103C8, \h10450,
  \h10800, \h10808, \h1080A, \h10837, \h1083C, \h1083F, \h10900, \h10920,
  \h10980, \h109BE, \h10A00, \h10A10, \h10A15, \h10A19, \h10A60, \h10B00,
  \h10B40, \h10B60, \h10C00, \h11003, \h11083, \h110D0, \h11103, \h11183,
  \h111C1, \h11680, \h12000, \h13000, \h16800, \h16F00, \h16F50, \h1B000,
  \h1EE00, \h1EE05, \h1EE21, \h1EE24, \h1EE27, \h1EE29, \h1EE34, \h1EE39,
  \h1EE3B, \h1EE42, \h1EE47, \h1EE49, \h1EE4B, \h1EE4D, \h1EE51, \h1EE54>>
  \o Every(\h1EE57, 2, 6) \o <<\h1EE64, \h1EE67, \h1EE6C, \h1EE74, \h1EE79,
  \h1EE7E, \h1EE80, \h1EE8B, \h1EEA1, \h1EEA5, \h1EEAB, \h20000, \h2A6D6,
  \h2A700, \h2B734, \h2B740, \h2B81D, \h2F800>>

LoLow ==
  LoLowEarly \o LoLowMiddle \o LoLowLater \o LoLowPlanes

LoUpEarly ==
  <<\hAA, \hBA, \h1BB, \h1C3, \h294, \h5EA, \h5F2, \h63F, \h64A, \h66F, \h6D3,
  \h6D5, \h6EF, \h6FC, \h6FF, \h710, \h72F, \h7A5, \h7B1, \h7EA, \h815, \h858,
  \h8A0, \h8AC, \h939, \h93D, \h950, \h961, \h977, \h97F, \h98C, \h990, \h9A8,
  \h9B0, \h9B2, \h9B9, \h9BD, \h9CE, \h9DD, \h9E1, \h9F1, \hA0A, \hA10, \hA28,
  \hA30, \hA33, \hA36, \hA39, \hA5C, \hA5E, \hA74, \hA8D, \hA91, \hAA8, \hAB0,
  \hAB3, \hAB9, \hABD, \hAD0, \hAE1, \hB0C, \hB10, \hB28, \hB30, \hB33, \hB39,
  \hB3D, \hB5D, \hB61, \hB71, \hB83, \hB8A, \hB90, \hB95, \hB9A, \hB9C, \hB9F,
  \hBA4, \hBAA, \hBB9, \hBD0, \hC0C, \hC10, \hC28, \hC33, \hC39, \hC3D, \hC59,
  \hC61, \hC8C, \hC90, \hCA8, \hCB3, \hCB9, \hCBD, \hCDE, \hCE1, \hCF2, \hD0C,
  \hD10, \hD3A, \hD3D, \hD4E, \hD61, \hD7F, \hD96, \hDB1, \hDBB, \hDBD, \hDC6,
  \hE30, \hE33, \hE45, \hE82, \hE84, \hE88, \hE8A, \hE8D, \hE97, \hE9F, \hEA3,
  \hEA5, \hEA7, \hEAB, \hEB0, \hEB3, \hEBD, \hEC4, \hEDF, \hF00, \hF47, \hF6C,
  \hF8C>>

LoUpMiddle ==
  <<\h102A, \h103F, \h1055, \h105D, \h1061, \h1066, \h1070, \h1081, \h108E,
  \h10FA, \h1248, \h124D, \h1256, \h1258, \h125D, \h1288, \h128D, \h12B0,
  \h12B5, \h12BE, \h12C0, \h12C5, \h12D6, \h1310, \h1315, \h135A, \h138F,
  \h13F4, \h166C, \h167F, \h169A, \h16EA, \h170C, \h1711, \h1731, \h1751,
  \h176C, \h1770, \h17B3, \h17DC, \h1842, \h1877, \h18A8, \h18AA, \h18F5,
  \h191C, \h196D, \h1974, \h19AB, \h19C7, \h1A16, \h1A54, \h1B33, \h1B4B,
  \h1BA0, \h1BAF, \h1BE5, \h1C23, \h1C4F, \h1C77, \h1CEC, \h1CF1, \h1CF6,
  \h2138, \h2D67, \h2D96>> \o Every(\h2DA6, 8, 8)

LoUpLater ==
  <<\h3006, \h303C, \h3096, \h309F, \h30FA, \h30FF, \h312D, \h318E, \h31BA,
  \h31FF, \h3400, \h4DB5, \h4E00, \h9FCC, \hA014, \hA48C, \hA4F7, \hA60B,
  \hA61F, \hA62B, \hA66E, \hA6E5, \hA801, \hA805, \hA80A, \hA822, \hA873,
  \hA8B3, \hA8F7, \hA8FB, \hA925, \hA946, \hA97C, \hA9B2, \hAA28, \hAA42,
  \hAA4B, \hAA6F, \hAA76, \hAA7A, \hAAAF, \hAAB1, \hAAB6, \hAABD, \hAAC0,
  \hAAC2, \hAADC, \hAAEA, \hAAF2, \hAB06, \hAB0E, \hAB16, \hAB26, \hAB2E,
  \hABE2, \hAC00, \hD7A3, \hD7C6, \hD7FB, \hFA6D, \hFAD9, \hFB1D, \hFB28,
  \hFB36, \hFB3C, \hFB3E, \hFB41, \hFB44, \hFBB1, \hFD3D, \hFD8F, \hFDC7,
  \hFDFB, \hFE74, \hFEFC, \hFF6F, \hFF9D, \hFFBE, \hFFC7, \hFFCF, \hFFD7,
  \hFFDC>>

LoUpPlanes ==
  <<\h1000B, \h10026, \h1003A, \h1003D, \h1004D, \h1005D, \h100FA, \h1029C,
  \h102D0, \h1031E, \h10340, \h10349, \h1039D, \h103C3, \h103CF, \h1049D,
  \h10805, \h10808, \h10835, \h10838, \h1083C, \h10855, \h10915, \h10939,
  \h109B7, \h109BF, \h10A00, \h10A13, \h10A17, \h10A33, \h10A7C, \h10B35,
  \h10B55, \h10B72, \h10C48, \h11037, \h110AF, \h110E8, \h11126, \h111B2,
  \h111C4, \h116AA, \h1236E, \h1342E, \h16A38, \h16F44, \h16F50, \h1B001,
  \h1EE03, \h1EE1F, \h1EE22, \h1EE24, \h1EE27, \h1EE32, \h1EE37, \h1EE39,
  \h1EE3B, \h1EE42, \h1EE47, \h1EE49, \h1EE4B, \h1EE4F, \h1EE52, \h1EE54>>
  \o Every(\h1EE57, 2, 5) \o <<\h1EE62, \h1EE64, \h1EE6A, \h1EE72, \h1EE77,
  \h1EE7C, \h1EE7E, \h1EE89, \h1EE9B, \h1EEA3, \h1EEA9, \h1EEBB, \h20000,
  \h2A6D6, \h2A700, \h2B734, \h2B740, \h2B81D, \h2FA1D>>

LoUp ==
  LoUpEarly \o LoUpMiddle \o LoUpLater \o LoUpPlanes

is_range_lo(ch) == InRanges(ch, LoLow, LoUp)

-----------------------------------------------------------------------------
\* Category Lt: titlecase letters.

LtLow ==
  <<\h1C5, \h1C8, \h1CB, \h1F2, \h1F88, \h1F98, \h1FA8, \h1FBC, \h1FCC,
  \h1FFC>>

\* Plausible bug: the first line of the table is lost.
LtUpShort ==
  <<\h1C8, \h1CB, \h1F2, \h1F8F, \h1F9F, \h1FAF, \h1FBC, \h1FCC, \h1FFC>>

LtUp ==
  <<\h1C5, \h1C8, \h1CB, \h1F2, \h1F8F, \h1F9F, \h1FAF, \h1FBC, \h1FCC,
  \h1FFC>>

is_range_lt(ch) == InRanges(ch, LtLow, LtUp)

-----------------------------------------------------------------------------
\* Category Lu: uppercase letters.

LuLowLatin ==
  <<\h41, \hC0, \hD8>> \o Every(\h100, 2, 28) \o Every(\h139, 2, 8)
  \o Every(\h14A, 2, 24) \o <<\h17B, \h17D, \h181, \h184, \h186, \h189, \h18E,
  \h193, \h196, \h19C, \h19F, \h1A2, \h1A4, \h1A6, \h1A9, \h1AC, \h1AE, \h1B1,
  \h1B5, \h1B7, \h1BC, \h1C4, \h1C7, \h1CA>> \o Every(\h1CD, 2, 8)
  \o Every(\h1DE, 2, 9) \o <<\h1F1, \h1F4, \h1F6>> \o Every(\h1FA, 2, 29)
  \o <<\h23A, \h23D, \h241, \h243, \h248, \h24A, \h24C, \h24E>>

LuLowGreek ==
  <<\h370, \h372, \h376, \h386, \h388, \h38C, \h38E, \h391, \h3A3, \h3CF,
  \h3D2>> \o Every(\h3D8, 2, 12) \o <<\h3F4, \h3F7, \h3F9, \h3FD>>
  \o Every(\h460, 2, 17) \o Every(\h48A, 2, 28) \o Every(\h4C3, 2, 6)
  \o Every(\h4D0, 2, 44) \o <<\h531, \h10A0, \h10C7, \h10CD>>

LuLowExtended ==
  Every(\h1E00, 2, 75) \o Every(\h1E9E, 2, 49) \o Every(\h1F08, 16, 5)
  \o <<\h1F59, \h1F5B, \h1F5D, \h1F5F, \h1F68>> \o Every(\h1FB8, 16, 5)

LuLowCoptic ==
  <<\h2102, \h2107, \h210B, \h2110, \h2115, \h2119, \h2124, \h2126, \h2128,
  \h212A, \h2130, \h213E, \h2145, \h2183, \h2C00, \h2C60, \h2C62, \h2C67,
  \h2C69, \h2C6B, \h2C6D, \h2C72, \h2C75, \h2C7E>> \o Every(\h2C82, 2, 49)
  \o <<\h2CEB, \h2CED, \h2CF2>>

LuLowLater ==
  Every(\hA640, 2, 23) \o Every(\hA680, 2, 12) \o Every(\hA722, 2, 7)
  \o Every(\hA732, 2, 31) \o <<\hA779, \hA77B, \hA77D, \hA780, \hA782, \hA784,
  \hA786, \hA78B, \hA78D, \hA790, \hA792>> \o Every(\hA7A0, 2, 6)
  \o <<\hFF21>>

LuLowPlanes ==
  <<\h10400, \h1D400, \h1D434, \h1D468, \h1D49C, \h1D49E, \h1D4A2, \h1D4A5,
  \h1D4A9, \h1D4AE, \h1D4D0, \h1D504, \h1D507, \h1D50D, \h1D516, \h1D538,
  \h1D53B, \h1D540, \h1D546, \h1D54A>> \o Every(\h1D56C, 52, 6)
  \o Every(\h1D6A8, 58, 6)

LuLow ==
  LuLowLatin \o LuLowGreek \o LuLowExtended \o LuLowCoptic \o LuLowLater
   \o LuLowPlanes

LuUpLatin ==
  <<\h5A, \hD6, \hDE>> \o Every(\h100, 2, 28) \o Every(\h139, 2, 8)
  \o Every(\h14A, 2, 23) \o <<\h179, \h17B, \h17D, \h182, \h184, \h187, \h18B,
  \h191, \h194, \h198, \h19D, \h1A0, \h1A2, \h1A4, \h1A7, \h1A9, \h1AC, \h1AF,
  \h1B3, \h1B5, \h1B8, \h1BC, \h1C4, \h1C7, \h1CA>> \o Every(\h1CD, 2, 8)
  \o Every(\h1DE, 2, 9) \o <<\h1F1, \h1F4>> \o Every(\h1F8, 2, 30) \o <<\h23B,
  \h23E, \h241>> \o Every(\h246, 2, 5)

LuUpGreek ==
  <<\h370, \h372, \h376, \h386, \h38A, \h38C, \h38F, \h3A1, \h3AB, \h3CF,
  \h3D4>> \o Every(\h3D8, 2, 12) \o <<\h3F4, \h3F7, \h3FA, \h42F>>
  \o Every(\h460, 2, 17) \o Every(\h48A, 2, 27) \o Every(\h4C1, 2, 7)
  \o Every(\h4D0, 2, 44) \o <<\h556, \h10C5, \h10C7, \h10CD>>

LuUpExtended ==
  Every(\h1E00, 2, 75) \o Every(\h1E9E, 2, 49) \o <<\h1F0F, \h1F1D, \h1F2F,
  \h1F3F, \h1F4D, \h1F59, \h1F5B, \h1F5D, \h1F5F, \h1F6F, \h1FBB, \h1FCB,
  \h1FDB, \h1FEC, \h1FFB>>

LuUpCoptic ==
  <<\h2102, \h2107, \h210D, \h2112, \h2115, \h211D, \h2124, \h2126, \h2128,
  \h212D, \h2133, \h213F, \h2145, \h2183, \h2C2E, \h2C60, \h2C64, \h2C67,
  \h2C69, \h2C6B, \h2C70, \h2C72, \h2C75>> \o Every(\h2C80, 2, 50)
  \o <<\h2CEB, \h2CED, \h2CF2>>

LuUpLater ==
  Every(\hA640, 2, 23) \o Every(\hA680, 2, 12) \o Every(\hA722, 2, 7)
  \o Every(\hA732, 2, 31) \o <<\hA779, \hA77B>> \o Every(\hA77E, 2, 5)
  \o <<\hA78B, \hA78D, \hA790, \hA792>> \o Every(\hA7A0, 2, 6) \o <<\hFF3A>>

LuUpPlanes ==
  <<\h10427, \h1D419, \h1D44D, \h1D481, \h1D49C, \h1D49F, \h1D4A2, \h1D4A6,
  \h1D4AC, \h1D4B5, \h1D4E9, \h1D505, \h1D50A, \h1D514, \h1D51C, \h1D539,
  \h1D53E, \h1D544, \h1D546, \h1D550>> \o Every(\h1D585, 52, 6)
  \o Every(\h1D6C0, 58, 5) \o <<\h1D7CA>>

LuUp ==
  LuUpLatin \o LuUpGreek \o LuUpExtended \o LuUpCoptic \o LuUpLater
   \o LuUpPlanes

is_range_lu(ch) == InRanges(ch, LuLow, LuUp)

-----------------------------------------------------------------------------
\* Category Mc: spacing marks.

McLow ==
  <<\h903, \h93B, \h93E, \h949, \h94E, \h982, \h9BE, \h9C7, \h9CB, \h9D7,
  \hA03, \hA3E, \hA83, \hABE, \hAC9, \hACB, \hB02, \hB3E, \hB40, \hB47, \hB4B,
  \hB57, \hBBE, \hBC1, \hBC6, \hBCA, \hBD7, \hC01, \hC41, \hC82, \hCBE, \hCC0,
  \hCC7, \hCCA, \hCD5, \hD02, \hD3E, \hD46, \hD4A, \hD57, \hD82, \hDCF, \hDD8,
  \hDF2, \hF3E, \hF7F, \h102B, \h1031, \h1038, \h103B, \h1056, \h1062, \h1067,
  \h1083, \h1087, \h108F, \h109A, \h17B6, \h17BE, \h17C7, \h1923, \h1929,
  \h1930, \h1933, \h19B0, \h19C8, \h1A19, \h1A55, \h1A57, \h1A61, \h1A63,
  \h1A6D, \h1B04, \h1B35, \h1B3B, \h1B3D, \h1B43, \h1B82, \h1BA1, \h1BA6,
  \h1BAA, \h1BAC, \h1BE7, \h1BEA, \h1BEE, \h1BF2, \h1C24, \h1C34, \h1CE1,
  \h1CF2, \h302E, \hA823, \hA827, \hA880, \hA8B4, \hA952, \hA983, \hA9B4,
  \hA9BA, \hA9BD, \hAA2F, \hAA33, \hAA4D, \hAA7B, \hAAEB, \hAAEE, \hAAF5,
  \hABE3, \hABE6, \hABE9, \hABEC, \h11000, \h11002, \h11082, \h110B0, \h110B7,
  \h1112C, \h11182, \h111B3, \h111BF, \h116AC, \h116AE, \h116B6, \h16F51,
  \h1D165, \h1D16D>>

McUp ==
  <<\h903, \h93B, \h940, \h94C, \h94F, \h983, \h9C0, \h9C8, \h9CC, \h9D7,
  \hA03, \hA40, \hA83, \hAC0, \hAC9, \hACC, \hB03, \hB3E, \hB40, \hB48, \hB4C,
  \hB57, \hBBF, \hBC2, \hBC8, \hBCC, \hBD7, \hC03, \hC44, \hC83, \hCBE, \hCC4,
  \hCC8, \hCCB, \hCD6, \hD03, \hD40, \hD48, \hD4C, \hD57, \hD83, \hDD1, \hDDF,
  \hDF3, \hF3F, \hF7F, \h102C, \h1031, \h1038, \h103C, \h1057, \h1064, \h106D,
  \h1084, \h108C, \h108F, \h109C, \h17B6, \h17C5, \h17C8, \h1926, \h192B,
  \h1931, \h1938, \h19C0, \h19C9, \h1A1B, \h1A55, \h1A57, \h1A61, \h1A64,
  \h1A72, \h1B04, \h1B35, \h1B3B, \h1B41, \h1B44, \h1B82, \h1BA1, \h1BA7,
  \h1BAA, \h1BAD, \h1BE7, \h1BEC, \h1BEE, \h1BF3, \h1C2B, \h1C35, \h1CE1,
  \h1CF3, \h302F, \hA824, \hA827, \hA881, \hA8C3, \hA953, \hA983, \hA9B5,
  \hA9BB, \hA9C0, \hAA30, \hAA34, \hAA4D, \hAA7B, \hAAEB, \hAAEF, \hAAF5,
  \hABE4, \hABE7, \hABEA, \hABEC, \h11000, \h11002, \h11082, \h110B2, \h110B8,
  \h1112C, \h11182, \h111B5, \h111C0, \h116AC, \h116AF, \h116B6, \h16F7E,
  \h1D166, \h1D172>>

is_range_mc(ch) == InRanges(ch, McLow, McUp)

-----------------------------------------------------------------------------
\* Category Mn: nonspacing marks.

MnLowEarly ==
  <<\h300, \h483, \h591, \h5BF, \h5C1, \h5C4, \h5C7, \h610, \h64B, \h670,
  \h6D6, \h6DF, \h6E7, \h6EA, \h711, \h730, \h7A6, \h7EB, \h816, \h81B, \h825,
  \h829, \h859, \h8E4, \h900, \h93A, \h93C, \h941, \h94D, \h951, \h962, \h981,
  \h9BC, \h9C1, \h9CD, \h9E2, \hA01, \hA3C, \hA41, \hA47, \hA4B, \hA51, \hA70,
  \hA75, \hA81, \hABC, \hAC1, \hAC7, \hACD, \hAE2, \hB01, \hB3C, \hB3F, \hB41,
  \hB4D, \hB56, \hB62, \hB82, \hBC0, \hBCD, \hC3E, \hC46, \hC4A, \hC55, \hC62,
  \hCBC, \hCBF, \hCC6, \hCCC, \hCE2, \hD41, \hD4D, \hD62, \hDCA, \hDD2, \hDD6,
  \hE31, \hE34, \hE47, \hEB1, \hEB4, \hEBB, \hEC8, \hF18, \hF35, \hF37, \hF39,
  \hF71, \hF80, \hF86, \hF8D, \hF99, \hFC6>>

MnLowLater ==
  <<\h102D, \h1032, \h1039, \h103D, \h1058, \h105E, \h1071, \h1082, \h1085,
  \h108D, \h109D, \h135D, \h1712, \h1732, \h1752, \h1772, \h17B4, \h17B7,
  \h17C6, \h17C9, \h17DD, \h180B, \h18A9, \h1920, \h1927, \h1932, \h1939,
  \h1A17, \h1A56, \h1A58, \h1A60, \h1A62, \h1A65, \h1A73, \h1A7F, \h1B00,
  \h1B34, \h1B36, \h1B3C, \h1B42, \h1B6B, \h1B80, \h1BA2, \h1BA8, \h1BAB,
  \h1BE6, \h1BE8, \h1BED, \h1BEF, \h1C2C, \h1C36, \h1CD0, \h1CD4, \h1CE2,
  \h1CED, \h1CF4, \h1DC0, \h1DFC, \h20D0, \h20E1, \h20E5, \h2CEF, \h2D7F,
  \h2DE0, \h302A, \h3099, \hA66F, \hA674, \hA69F, \hA6F0, \hA802, \hA806,
  \hA80B, \hA825, \hA8C4, \hA8E0, \hA926, \hA947, \hA980, \hA9B3, \hA9B6,
  \hA9BC, \hAA29, \hAA31, \hAA35, \hAA43, \hAA4C, \hAAB0, \hAAB2, \hAAB7,
  \hAABE, \hAAC1, \hAAEC, \hAAF6, \hABE5, \hABE8, \hABED, \hFB1E, \hFE00,
  \hFE20, \h101FD, \h10A01, \h10A05, \h10A0C, \h10A38, \h10A3F, \h11001,
  \h11038, \h11080, \h110B3, \h110B9, \h11100, \h11127, \h1112D, \h11180,
  \h111B6, \h116AB, \h116AD, \h116B0, \h116B7, \h16F8F, \h1D167, \h1D17B,
  \h1D185, \h1D1AA, \h1D242, \hE0100>>

MnLow ==
  MnLowEarly \o MnLowLater

MnUpEarly ==
  <<\h36F, \h487, \h5BD, \h5BF, \h5C2, \h5C5, \h5C7, \h61A, \h65F, \h670,
  \h6DC, \h6E4, \h6E8, \h6ED, \h711, \h74A, \h7B0, \h7F3, \h819, \h823, \h827,
  \h82D, \h85B, \h8FE, \h902, \h93A, \h93C, \h948, \h94D, \h957, \h963, \h981,
  \h9BC, \h9C4, \h9CD, \h9E3, \hA02, \hA3C, \hA42, \hA48, \hA4D, \hA51, \hA71,
  \hA75, \hA82, \hABC, \hAC5, \hAC8, \hACD, \hAE3, \hB01, \hB3C, \hB3F, \hB44,
  \hB4D, \hB56, \hB63, \hB82, \hBC0, \hBCD, \hC40, \hC48, \hC4D, \hC56, \hC63,
  \hCBC, \hCBF, \hCC6, \hCCD, \hCE3, \hD44, \hD4D, \hD63, \hDCA, \hDD4, \hDD6,
  \hE31, \hE3A, \hE4E, \hEB1, \hEB9, \hEBC, \hECD, \hF19, \hF35, \hF37, \hF39,
  \hF7E, \hF84, \hF87, \hF97, \hFBC, \hFC6>>

MnUpLater ==
  <<\h1030, \h1037, \h103A, \h103E, \h1059, \h1060, \h1074, \h1082, \h1086,
  \h108D, \h109D, \h135F, \h1714, \h1734, \h1753, \h1773, \h17B5, \h17BD,
  \h17C6, \h17D3, \h17DD, \h180D, \h18A9, \h1922, \h1928, \h1932, \h193B,
  \h1A18, \h1A56, \h1A5E, \h1A60, \h1A62, \h1A6C, \h1A7C, \h1A7F, \h1B03,
  \h1B34, \h1B3A, \h1B3C, \h1B42, \h1B73, \h1B81, \h1BA5, \h1BA9, \h1BAB,
  \h1BE6, \h1BE9, \h1BED, \h1BF1, \h1C33, \h1C37, \h1CD2, \h1CE0, \h1CE8,
  \h1CED, \h1CF4, \h1DE6, \h1DFF, \h20DC, \h20E1, \h20F0, \h2CF1, \h2D7F,
  \h2DFF, \h302D, \h309A, \hA66F, \hA67D, \hA69F, \hA6F1, \hA802, \hA806,
  \hA80B, \hA826, \hA8C4, \hA8F1, \hA92D, \hA951, \hA982, \hA9B3, \hA9B9,
  \hA9BC, \hAA2E, \hAA32, \hAA36, \hAA43, \hAA4C, \hAAB0, \hAAB4, \hAAB8,
  \hAABF, \hAAC1, \hAAED, \hAAF6, \hABE5, \hABE8, \hABED, \hFB1E, \hFE0F,
  \hFE26, \h101FD, \h10A03, \h10A06, \h10A0F, \h10A3A, \h10A3F, \h11001,
  \h11046, \h11081, \h110B6, \h110BA, \h11102, \h1112B, \h11134, \h11181,
  \h111BE, \h116AB, \h116AD, \h116B5, \h116B7, \h16F92, \h1D169, \h1D182,
  \h1D18B, \h1D1AD, \h1D244, \hE01EF>>

MnUp ==
  MnUpEarly \o MnUpLater

is_range_mn(ch) == InRanges(ch, MnLow, MnUp)

-----------------------------------------------------------------------------
\* Category Nd: decimal digits.

NdLow ==
  <<\h30, \h660, \h6F0, \h7C0>> \o Every(\h966, 128, 9) \o <<\hE50, \hED0,
  \hF20, \h1040, \h1090, \h17E0, \h1810, \h1946, \h19D0, \h1A80, \h1A90,
  \h1B50, \h1BB0, \h1C40, \h1C50, \hA620, \hA8D0, \hA900, \hA9D0, \hAA50,
  \hABF0, \hFF10, \h104A0, \h11066, \h110F0, \h11136, \h111D0, \h116C0,
  \h1D7CE>>

NdUp ==
  <<\h39, \h669, \h6F9, \h7C9>> \o Every(\h96F, 128, 9) \o <<\hE59, \hED9,
  \hF29, \h1049, \h1099, \h17E9, \h1819, \h194F, \h19D9, \h1A89, \h1A99,
  \h1B59, \h1BB9, \h1C49, \h1C59, \hA629, \hA8D9, \hA909, \hA9D9, \hAA59,
  \hABF9, \hFF19, \h104A9, \h1106F, \h110F9, \h1113F, \h111D9, \h116C9,
  \h1D7FF>>

is_range_nd(ch) == InRanges(ch, NdLow, NdUp)

-----------------------------------------------------------------------------
\* Category Nl: letter numbers.

NlLow ==
  <<\h16EE, \h2160, \h2185, \h3007, \h3021, \h3038, \hA6E6, \h10140, \h10341,
  \h1034A, \h103D1, \h12400>>

NlUp ==
  <<\h16F0, \h2182, \h2188, \h3007, \h3029, \h303A, \hA6EF, \h10174, \h10341,
  \h1034A, \h103D5, \h12462>>

is_range_nl(ch) == InRanges(ch, NlLow, NlUp)

-----------------------------------------------------------------------------
\* Category No: other numbers.

NoLow ==
  <<\hB2, \hB9, \hBC, \h9F4, \hB72, \hBF0, \hC78, \hD70, \hF2A, \h1369,
  \h17F0, \h19DA, \h2070, \h2074, \h2080, \h2150, \h2189, \h2460, \h24EA,
  \h2776, \h2CFD, \h3192, \h3220, \h3248, \h3251, \h3280, \h32B1, \hA830,
  \h10107, \h10175, \h1018A, \h10320, \h10858, \h10916, \h10A40, \h10A7D,
  \h10B58, \h10B78, \h10E60, \h11052, \h1D360, \h1F100>>

NoUp ==
  <<\hB3, \hB9, \hBE, \h9F9, \hB77, \hBF2, \hC7E, \hD75, \hF33, \h137C,
  \h17F9, \h19DA, \h2070, \h2079, \h2089, \h215F, \h2189, \h249B, \h24FF,
  \h2793, \h2CFD, \h3195, \h3229, \h324F, \h325F, \h3289, \h32BF, \hA835,
  \h10133, \h10178, \h1018A, \h10323, \h1085F, \h1091B, \h10A47, \h10A7E,
  \h10B5F, \h10B7F, \h10E7E, \h11065, \h1D371, \h1F10A>>

is_range_no(ch) == InRanges(ch, NoLow, NoUp)

-----------------------------------------------------------------------------
\* Category Pc: connectors.

PcLow ==
  <<\h5F, \h203F, \h2054, \hFE33, \hFE4D, \hFF3F>>

PcUp ==
  <<\h5F, \h2040, \h2054, \hFE34, \hFE4F, \hFF3F>>

is_range_pc(ch) == InRanges(ch, PcLow, PcUp)

-----------------------------------------------------------------------------
\* Category Pd: dashes.

PdLow ==
  <<\h2D, \h58A, \h5BE, \h1400, \h1806, \h2010, \h2E17, \h2E1A, \h2E3A,
  \h301C, \h3030, \h30A0, \hFE31, \hFE58, \hFE63, \hFF0D>>

PdUp ==
  <<\h2D, \h58A, \h5BE, \h1400, \h1806, \h2015, \h2E17, \h2E1A, \h2E3B,
  \h301C, \h3030, \h30A0, \hFE32, \hFE58, \hFE63, \hFF0D>>

is_range_pd(ch) == InRanges(ch, PdLow, PdUp)

-----------------------------------------------------------------------------
\* Category Po: other punctuation.

PoLow ==
  <<\h21, \h25, \h2A, \h2C, \h2E, \h3A, \h3F, \h5C, \hA1, \hA7, \hB6, \hBF,
  \h37E, \h387, \h55A, \h589, \h5C0, \h5C3, \h5C6, \h5F3, \h609, \h60C, \h61B,
  \h61E, \h66A, \h6D4, \h700, \h7F7, \h830, \h85E, \h964, \h970, \hAF0, \hDF4,
  \hE4F, \hE5A, \hF04, \hF14, \hF85, \hFD0, \hFD9, \h104A, \h10FB, \h1360,
  \h166D, \h16EB, \h1735, \h17D4, \h17D8, \h1800, \h1807, \h1944, \h1A1E,
  \h1AA0, \h1AA8, \h1B5A, \h1BFC, \h1C3B, \h1C7E, \h1CC0, \h1CD3, \h2016,
  \h2020, \h2030, \h203B, \h2041, \h2047, \h2053, \h2055, \h2CF9, \h2CFE,
  \h2D70, \h2E00, \h2E06, \h2E0B, \h2E0E, \h2E18, \h2E1B, \h2E1E, \h2E2A,
  \h2E30, \h3001, \h303D, \h30FB, \hA4FE, \hA60D, \hA673, \hA67E, \hA6F2,
  \hA874, \hA8CE, \hA8F8, \hA92E, \hA95F, \hA9C1, \hA9DE, \hAA5C, \hAADE,
  \hAAF0, \hABEB, \hFE10, \hFE19, \hFE30, \hFE45, \hFE49, \hFE50, \hFE54,
  \hFE5F, \hFE68, \hFE6A, \hFF01, \hFF05, \hFF0A, \hFF0C, \hFF0E, \hFF1A,
  \hFF1F, \hFF3C, \hFF61, \hFF64, \h10100, \h1039F, \h103D0, \h10857, \h1091F,
  \h1093F, \h10A50, \h10A7F, \h10B39, \h11047, \h110BB, \h110BE, \h11140,
  \h111C5, \h12470>>

PoUp ==
  <<\h23, \h27, \h2A, \h2C, \h2F, \h3B, \h40, \h5C, \hA1, \hA7, \hB7, \hBF,
  \h37E, \h387, \h55F, \h589, \h5C0, \h5C3, \h5C6, \h5F4, \h60A, \h60D, \h61B,
  \h61F, \h66D, \h6D4, \h70D, \h7F9, \h83E, \h85E, \h965, \h970, \hAF0, \hDF4,
  \hE4F, \hE5B, \hF12, \hF14, \hF85, \hFD4, \hFDA, \h104F, \h10FB, \h1368,
  \h166E, \h16ED, \h1736, \h17D6, \h17DA, \h1805, \h180A, \h1945, \h1A1F,
  \h1AA6, \h1AAD, \h1B60, \h1BFF, \h1C3F, \h1C7F, \h1CC7, \h1CD3, \h2017,
  \h2027, \h2038, \h203E, \h2043, \h2051, \h2053, \h205E, \h2CFC, \h2CFF,
  \h2D70, \h2E01, \h2E08, \h2E0B, \h2E16, \h2E19, \h2E1B, \h2E1F, \h2E2E,
  \h2E39, \h3003, \h303D, \h30FB, \hA4FF, \hA60F, \hA673, \hA67E, \hA6F7,
  \hA877, \hA8CF, \hA8FA, \hA92F, \hA95F, \hA9CD, \hA9DF, \hAA5F, \hAADF,
  \hAAF1, \hABEB, \hFE16, \hFE19, \hFE30, \hFE46, \hFE4C, \hFE52, \hFE57,
  \hFE61, \hFE68, \hFE6B, \hFF03, \hFF07, \hFF0A, \hFF0C, \hFF0F, \hFF1B,
  \hFF20, \hFF3C, \hFF61, \hFF65, \h10102, \h1039F, \h103D0, \h10857, \h1091F,
  \h1093F, \h10A58, \h10A7F, \h10B3F, \h1104D, \h110BC, \h110C1, \h11143,
  \h111C8, \h12473>>

is_range_po(ch) == InRanges(ch, PoLow, PoUp)

-----------------------------------------------------------------------------
\* Category Sc: currency symbols.

ScLow ==
  <<\h24, \hA2, \h58F, \h60B, \h9F2, \h9FB, \hAF1, \hBF9, \hE3F, \h17DB,
  \h20A0, \hA838, \hFDFC, \hFE69, \hFF04, \hFFE0, \hFFE5>>

ScUp ==
  <<\h24, \hA5, \h58F, \h60B, \h9F3, \h9FB, \hAF1, \hBF9, \hE3F, \h17DB,
  \h20B9, \hA838, \hFDFC, \hFE69, \hFF04, \hFFE1, \hFFE6>>

is_range_sc(ch) == InRanges(ch, ScLow, ScUp)

-----------------------------------------------------------------------------
\* Category Sk: modifier symbols.

SkLow ==
  <<\h5E, \h60, \hA8, \hAF, \hB4, \hB8, \h2C2, \h2D2, \h2E5, \h2ED, \h2EF,
  \h375, \h384, \h1FBD, \h1FBF, \h1FCD, \h1FDD, \h1FED, \h1FFD, \h309B,
  \hA700, \hA720, \hA789, \hFBB2, \hFF3E, \hFF40, \hFFE3>>

SkUp ==
  <<\h5E, \h60, \hA8, \hAF, \hB4, \hB8, \h2C5, \h2DF, \h2EB, \h2ED, \h2FF,
  \h375, \h385, \h1FBD, \h1FC1, \h1FCF, \h1FDF, \h1FEF, \h1FFE, \h309C,
  \hA716, \hA721, \hA78A, \hFBC1, \hFF3E, \hFF40, \hFFE3>>

is_range_sk(ch) == InRanges(ch, SkLow, SkUp)

-----------------------------------------------------------------------------
\* Category Sm: mathematical symbols.

SmLow ==
  <<\h2B, \h3C, \h7C, \h7E, \hAC, \hB1, \hD7, \hF7, \h3F6, \h606, \h2044,
  \h2052, \h207A, \h208A, \h2118, \h2140, \h214B, \h2190, \h219A, \h21A0,
  \h21A3, \h21A6, \h21AE, \h21CE, \h21D2, \h21D4, \h21F4, \h2308, \h2320,
  \h237C, \h239B, \h23DC, \h25B7, \h25C1, \h25F8, \h266F, \h27C0, \h27C7,
  \h27F0, \h2900, \h2999, \h29DC, \h29FE, \h2B30, \h2B47, \hFB29, \hFE62,
  \hFE64, \hFF0B, \hFF1C, \hFF5C, \hFF5E, \hFFE2, \hFFE9, \h1D6C1, \h1D6DB,
  \h1D6FB, \h1D715, \h1D735, \h1D74F, \h1D76F, \h1D789, \h1D7A9, \h1D7C3,
  \h1EEF0>>

SmUp ==
  <<\h2B, \h3E, \h7C, \h7E, \hAC, \hB1, \hD7, \hF7, \h3F6, \h608, \h2044,
  \h2052, \h207C, \h208C, \h2118, \h2144, \h214B, \h2194, \h219B, \h21A0,
  \h21A3, \h21A6, \h21AE, \h21CF, \h21D2, \h21D4, \h22FF, \h230B, \h2321,
  \h237C, \h23B3, \h23E1, \h25B7, \h25C1, \h25FF, \h266F, \h27C4, \h27E5,
  \h27FF, \h2982, \h29D7, \h29FB, \h2AFF, \h2B44, \h2B4C, \hFB29, \hFE62,
  \hFE66, \hFF0B, \hFF1E, \hFF5C, \hFF5E, \hFFE2, \hFFEC, \h1D6C1, \h1D6DB,
  \h1D6FB, \h1D715, \h1D735, \h1D74F, \h1D76F, \h1D789, \h1D7A9, \h1D7C3,
  \h1EEF1>>

is_range_sm(ch) == InRanges(ch, SmLow, SmUp)

-----------------------------------------------------------------------------
\* Category So: other symbols.

SoLow ==
  <<\hA6, \hA9, \hAE, \hB0, \h482, \h60E, \h6DE, \h6E9, \h6FD, \h7F6, \h9FA,
  \hB70, \hBF3, \hBFA, \hC7F, \hD79, \hF01, \hF13, \hF15, \hF1A, \hF34, \hF36,
  \hF38, \hFBE, \hFC7, \hFCE, \hFD5, \h109E, \h1390, \h1940, \h19DE, \h1B61,
  \h1B74, \h2100, \h2103, \h2108, \h2114, \h2116, \h211E, \h2125, \h2127,
  \h2129, \h212E, \h213A, \h214A, \h214C, \h214F, \h2195, \h219C, \h21A1,
  \h21A4, \h21A7, \h21AF, \h21D0, \h21D3, \h21D5, \h2300, \h230C, \h2322,
  \h232B, \h237D, \h23B4, \h23E2, \h2400, \h2440, \h249C, \h2500, \h25B8,
  \h25C2, \h2600, \h2670, \h2701, \h2794, \h2800, \h2B00, \h2B45, \h2B50,
  \h2CE5, \h2E80, \h2E9B, \h2F00, \h2FF0, \h3004, \h3012, \h3020, \h3036,
  \h303E, \h3190, \h3196, \h31C0, \h3200, \h322A, \h3250, \h3260, \h328A,
  \h32C0, \h3300, \h4DC0, \hA490, \hA828, \hA836, \hA839, \hAA77, \hFDFD,
  \hFFE4, \hFFE8, \hFFED, \hFFFC, \h10137, \h10179, \h10190, \h101D0, \h1D000,
  \h1D100, \h1D129, \h1D16A, \h1D183, \h1D18C, \h1D1AE, \h1D200, \h1D245,
  \h1D300, \h1F000, \h1F030, \h1F0A0, \h1F0B1, \h1F0C1, \h1F0D1, \h1F110,
  \h1F130, \h1F170, \h1F1E6, \h1F210, \h1F240, \h1F250, \h1F300, \h1F330,
  \h1F337, \h1F380, \h1F3A0, \h1F3C6, \h1F3E0, \h1F400, \h1F440, \h1F442,
  \h1F4F9, \h1F500, \h1F540, \h1F550, \h1F5FB, \h1F645, \h1F680, \h1F700>>

SoUp ==
  <<\hA6, \hA9, \hAE, \hB0, \h482, \h60F, \h6DE, \h6E9, \h6FE, \h7F6, \h9FA,
  \hB70, \hBF8, \hBFA, \hC7F, \hD79, \hF03, \hF13, \hF17, \hF1F, \hF34, \hF36,
  \hF38, \hFC5, \hFCC, \hFCF, \hFD8, \h109F, \h1399, \h1940, \h19FF, \h1B6A,
  \h1B7C, \h2101, \h2106, \h2109, \h2114, \h2117, \h2123, \h2125, \h2127,
  \h2129, \h212E, \h213B, \h214A, \h214D, \h214F, \h2199, \h219F, \h21A2,
  \h21A5, \h21AD, \h21CD, \h21D1, \h21D3, \h21F3, \h2307, \h231F, \h2328,
  \h237B, \h239A, \h23DB, \h23F3, \h2426, \h244A, \h24E9, \h25B6, \h25C0,
  \h25F7, \h266E, \h26FF, \h2767, \h27BF, \h28FF, \h2B2F, \h2B46, \h2B59,
  \h2CEA, \h2E99, \h2EF3, \h2FD5, \h2FFB, \h3004, \h3013, \h3020, \h3037,
  \h303F, \h3191, \h319F, \h31E3, \h321E, \h3247, \h3250, \h327F, \h32B0,
  \h32FE, \h33FF, \h4DFF, \hA4C6, \hA82B, \hA837, \hA839, \hAA79, \hFDFD,
  \hFFE4, \hFFE8, \hFFEE, \hFFFD, \h1013F, \h10189, \h1019B, \h101FC, \h1D0F5,
  \h1D126, \h1D164, \h1D16C, \h1D184, \h1D1A9, \h1D1DD, \h1D241, \h1D245,
  \h1D356, \h1F02B, \h1F093, \h1F0AE, \h1F0BE, \h1F0CF, \h1F0DF, \h1F12E,
  \h1F16B, \h1F19A, \h1F202, \h1F23A, \h1F248, \h1F251, \h1F320, \h1F335,
  \h1F37C, \h1F393, \h1F3C4, \h1F3CA, \h1F3F0, \h1F43E, \h1F440, \h1F4F7,
  \h1F4FC, \h1F53D, \h1F543, \h1F567, \h1F640, \h1F64F, \h1F6C5, \h1F773>>

is_range_so(ch) == InRanges(ch, SoLow, SoUp)

-----------------------------------------------------------------------------
\* The tables by category.
Tables ==
  [co |-> <<CoLow, CoUp>>, ll |-> <<LlLow, LlUp>>, lm |-> <<LmLow, LmUp>>,
   lo |-> <<LoLow, LoUp>>, lt |-> <<LtLow, LtUp>>, lu |-> <<LuLow, LuUp>>,
   mc |-> <<McLow, McUp>>, mn |-> <<MnLow, MnUp>>, nd |-> <<NdLow, NdUp>>,
   nl |-> <<NlLow, NlUp>>, no |-> <<NoLow, NoUp>>, pc |-> <<PcLow, PcUp>>,
   pd |-> <<PdLow, PdUp>>, po |-> <<PoLow, PoUp>>, sc |-> <<ScLow, ScUp>>,
   sk |-> <<SkLow, SkUp>>, sm |-> <<SmLow, SmUp>>, so |-> <<SoLow, SoUp>>]

Categories == DOMAIN Tables

=============================================================================
