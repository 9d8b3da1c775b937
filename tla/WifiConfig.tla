------------------------------- MODULE WifiConfig -------------------------------
(***************************************************************************)
(* Credentials written over BLE (wifi_ssid_write, wifi_pass_write in         *)
(* vcu/src/main.c, store_wifi_credentials in wifi_config.c).  A phone may    *)
(* write a value whole or in fragments, from any offset and again and again; *)
(* each write is one call in the thread of the Bluetooth stack.  wifi_init,  *)
(* which would load stored credentials, has no caller.                       *)
(***************************************************************************)
EXTENDS Integers, Sequences, FiniteSetsExt

CONSTANTS
    Chars, Nul,       \* characters of a value, and the end of a string
    MaxLen            \* MAX_SSID_LEN, MAX_PSK_LEN

VARIABLES
    ssid, password,   \* the static buffers of the two writers
    credentials,      \* the two strings kept in RAM
    stored,           \* what secure storage has under "wifi_creds"
    connecting,       \* password of the last wifi_connect
    nul_written       \* history: a write has had a Nul in it

wifiVars == <<ssid, password, credentials, stored, connecting, nul_written>>

ASSUME WifiAssumption == Nul \notin Chars /\ MaxLen \in Nat \ {0, 1}

Indices == 0 .. MaxLen - 1
Empty == [i \in Indices |-> Nul]

WifiInit ==
    /\ ssid = Empty
    /\ password = Empty
    /\ credentials = [ssid |-> <<>>, password |-> <<>>]
    /\ stored = credentials
    /\ connecting = <<>>
    /\ nul_written = FALSE

-----------------------------------------------------------------------------
\* Mutant: what is written ends the string.
WrittenAsString(buffer, offset, text) ==
    [i \in Indices |-> IF i \in offset .. offset + Len(text) - 1 THEN text[i - offset + 1]
                       ELSE IF i = offset + Len(text) THEN Nul ELSE buffer[i]]

\* memcpy to an offset: nothing ends the string behind the text.
Written(buffer, offset, text) ==
    [i \in Indices |-> IF i \in offset .. offset + Len(text) - 1
                       THEN text[i - offset + 1] ELSE buffer[i]]

\* What strlen may say: in a full buffer it reads on behind the end.
Strlen(buffer) ==
    LET ends == {i \in Indices : buffer[i] = Nul}
    IN  IF ends = {} THEN {MaxLen, MaxLen + 1} ELSE {Min(ends)}

First(buffer, length) == [i \in 1 .. length |-> buffer[i - 1]]

\* strncpy copies MaxLen - 1 characters at most, up to the end of the string.
Copied(buffer, length) == First(buffer, Min({length, MaxLen - 1}))

\* What a phone writes is any bytes; what strlen stops at is text.
Writes == UNION {[1 .. n -> Chars \cup {Nul}] : n \in 0 .. MaxLen}
Texts == UNION {[1 .. n -> Chars] : n \in 0 .. MaxLen}

\* A write behind the end is refused.
Fits(offset, text) == offset + Len(text) <= MaxLen

wifi_ssid_write(offset, text) ==
    /\ Fits(offset, text)
    /\ ssid' = Written(ssid, offset, text)
    /\ \E length \in Strlen(ssid') :
          credentials' = IF offset + Len(text) = length
                         THEN [credentials EXCEPT !.ssid = Copied(ssid', length)]
                         ELSE credentials
    /\ UNCHANGED <<password, stored, connecting>>

\* The name is stored with the password, and never without it.
TakePassword(length) ==
    /\ credentials' = [credentials EXCEPT !.password = Copied(password', length)]
    /\ stored' = credentials'
    /\ connecting' = First(password', length)

wifi_pass_write(offset, text) ==
    /\ Fits(offset, text)
    /\ password' = Written(password, offset, text)
    /\ \E length \in Strlen(password') :
          IF offset + Len(text) = length THEN TakePassword(length)
          ELSE UNCHANGED <<credentials, stored, connecting>>
    /\ UNCHANGED ssid

WifiNext ==
    \E offset \in 0 .. MaxLen, text \in Writes :
        /\ wifi_ssid_write(offset, text) \/ wifi_pass_write(offset, text)
        /\ nul_written' = (nul_written \/ \E i \in DOMAIN text : text[i] = Nul)

-----------------------------------------------------------------------------
Strings == {text \in Texts : Len(text) < MaxLen}

WifiTypeOK ==
    /\ {ssid, password} \subseteq [Indices -> Chars \cup {Nul}]
    /\ {credentials, stored} \subseteq [ssid : Strings, password : Strings]
    /\ connecting \in Texts
    /\ nul_written \in BOOLEAN

\* As long as nobody writes a Nul, neither the name nor the password ever gets
\* shorter until the VCU restarts: a shorter value leaves the rest of the longer
\* one behind it in the buffer, so its end is not where strlen finds it
\* (main.c:47, 66) and it is dropped although the write is answered as done.
CredentialsOnlyGrow ==
    [][~nul_written' =>
       /\ Len(credentials'.ssid) >= Len(credentials.ssid)
       /\ Len(credentials'.password) >= Len(credentials.password)
       /\ Len(stored'.ssid) >= Len(stored.ssid)]_wifiVars
=============================================================================
