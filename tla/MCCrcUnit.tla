----------------------------- MODULE MCCrcUnit ------------------------------
EXTENDS CrcUnit

\* A CRC of two bits over words of two one-bit lanes: x^2 + x + 1.
AllOnes == {0, 1}
MCPoly == {0, 1}

Word(d, be) == [data |-> d, be |-> be]
Words == {Word({}, {0, 1}), Word({0}, {0, 1}), Word({0}, {0})}
Ctrl(bits) == [reg |-> "CTRL", bits |-> bits, reset |-> FALSE]
Reset(bits) == [reg |-> "CTRL", bits |-> bits, reset |-> TRUE]
Clear(bits) == [reg |-> "STATUS", clear |-> bits]
Expect(c) == [reg |-> "EXP_RESULT", crc |-> c]
Select(m) == [reg |-> "MODE_CONFIG", mode |-> m]
ClearCount == [reg |-> "COUNT"]
On == {"ENABLE", "AUTO_CLEAR"}

\* Everything that the CPU may do beside a stream.
Steering == {Ctrl(On), Ctrl({"AUTO_CLEAR"}), Ctrl(On \cup {"IE_DONE", "IE_ERROR"}), Reset(On),
             Clear({"DONE"}), Clear({"PASS", "ERROR"}), Expect({}), Expect({0}),
             Select("REGISTER"), Select("COMPUTE_ONLY"), ClearCount}
Counting == {ClearCount, Expect({0})}
=============================================================================
