-------------------------- MODULE AdmissionWebhook --------------------------
(***************************************************************************)
(* api/v1alpha1/nodeconfig_webhook.go: the validation of a NodeConfig that *)
(* is to be created.  The webhook fetches the checksum file with curl and  *)
(* has ipmitool ask the BMC for its power status.  A text is a sequence of *)
(* tokens; the image's URL ends with its name, "image", of which "piece"   *)
(* is a substring, while "other" is the name of another image.             *)
(***************************************************************************)
EXTENDS Naturals, Sequences, SequencesExt

CONSTANTS
  MaxTokens,  \* bound on the length of a checksum file
  MaxImages   \* bound on the images in a file which md5sum wrote

ASSUME WebhookAssumption == MaxTokens \in Nat /\ MaxImages \in Nat

VARIABLES
  spec,     \* the NodeConfig that is to be created
  servers,  \* whether curl gets the file, and what ipmitool says
  verdict   \* what the webhook said, "" before
vars == <<spec, servers, verdict>>

Tokens == {"digest", "image", "piece", "other", "blank", "newline"}
Images == {"image", "piece", "other"}

\* What md5sum prints for an image, and for several ones
MD5Sum(image) == <<"digest", "blank", "blank", image, "newline">>
MD5Sums(images) == FlattenSeq([k \in DOMAIN images |-> MD5Sum(images[k])])

\* checksum: unset (as when there is no image), a URL, or the checksum as such;
\* file: the text at that URL; bmc: unset, or the form of its address.
Specs ==
  [checksum : {"", "url", "digest"},
   file : BoundedSeq(Tokens, MaxTokens)
          \cup {MD5Sums(images) : images \in BoundedSeq(Images, MaxImages)},
   bmc : {"", "host", "host:port", "ipmi://host:port"}]

\* ipmitool fails if the BMC is down or does not know the user; what it prints
\* otherwise may be odd.
Servers == [files : BOOLEAN, power : {"fails", "odd", "Chassis Power"}]

Init == spec \in Specs /\ servers \in Servers /\ verdict = ""

-----------------------------------------------------------------------------
(* The image and its checksum *)

\* A blank ends a part and begins the next one.
AddToken(parts, t) ==
  IF t = "blank" THEN Append(parts, <<>>)
  ELSE [parts EXCEPT ![Len(parts)] = Append(@, t)]

\* strings.Split(text, " ")
Split(text) ==
  LET parts[k \in 0 .. Len(text)] ==
        IF k = 0 THEN << <<>> >> ELSE AddToken(parts[k - 1], text[k])
  IN  parts[Len(text)]

\* strings.TrimSpace of a part, which has no blanks
TrimSpace(part) ==
  LET word == {i \in DOMAIN part : part[i] # "newline"}
  IN  IF word = {} THEN <<>> ELSE SubSeq(part, Min(word), Max(word))

\* strings.Contains(imageURL, part): every text contains the empty one.
URLContains(part) == part \in {<<>>, <<"image">>, <<"piece">>}

\* Mutant of ChecksumMatches: the file is taken as it is, newline included.
RawChecksumMatches(text) ==
  Len(Split(text)) = 3 /\ URLContains(Split(text)[3])

\* Mutant of ChecksumMatches: nobody looks whose checksum it is.
ChecksumFormat(text) == Len(Split(text)) = 3

ChecksumMatches(text) ==
  Len(Split(text)) = 3 /\ URLContains(TrimSpace(Split(text)[3]))

\* curl gets nothing but URLs, ipmitool nothing but names of hosts.
Fetched == servers.files /\ spec.checksum = "url"
Answers == servers.power # "fails" /\ spec.bmc = "host"
PowerStatus == servers.power = "Chassis Power"

-----------------------------------------------------------------------------

\* What has to hold, in the order of the checks, and what is said otherwise.
Checks == << <<spec.checksum # "", "image value not set">>,
             <<spec.bmc # "", "BMC value not set">>,
             <<Fetched, "checksum not fetched">>,
             <<ChecksumMatches(spec.file), "checksum error">>,
             <<Answers, "failed to BMC validation">>,
             <<PowerStatus, "unknown error">> >>

ValidateCreate ==
  /\ verdict = ""
  /\ LET failed == {i \in DOMAIN Checks : ~ Checks[i][1]}
     IN  verdict' = IF failed = {} THEN "accepted" ELSE Checks[Min(failed)][2]
  /\ UNCHANGED <<spec, servers>>

Spec == Init /\ [][ValidateCreate]_vars

-----------------------------------------------------------------------------
(* Properties *)

\* A NodeConfig with the file md5sum makes of its image is not refused for it:
\* splitting at single blanks gets the name, and the newline is cut off.
MD5SumAccepted == spec.file = MD5Sum("image") => verdict # "checksum error"

\* What is accepted has a BMC and the URL of a checksum file.  If md5sum wrote
\* that file, then for one image, and not for another one: the lists it writes
\* for several images have too many parts.  (Of other files this is not true:
\* of a list with single blanks only what is behind the last one is looked at.)
AcceptedOneImage ==
  verdict = "accepted" =>
    /\ spec.checksum = "url" /\ spec.bmc # ""
    /\ \A images \in BoundedSeq(Images, MaxImages) :
         spec.file = MD5Sums(images) => Len(images) = 1 /\ images[1] # "other"

=============================================================================
