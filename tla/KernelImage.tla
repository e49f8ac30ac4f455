---------------------------- MODULE KernelImage ----------------------------
(* ValidatedImage::parse: the kernel file as its program headers, and the checks
   that decide whether the loader may use it. The identification, type, machine
   and header-size fields are right or wrong together; a program header fills
   one byte of the file.                                                      *)
EXTENDS BootContract

CONSTANTS
    MinLoadAddress,     \* MINIMUM_LOAD_ADDRESS
    MaxSegments         \* MAXIMUM_LOAD_SEGMENTS

ASSUME ImageAssumption == MinLoadAddress \in Nat /\ MaxSegments \in Nat

MemoryEnd(segment) == segment.start + segment.size

PageCount(segment) == (segment.size + PageSize - 1) \div PageSize

SegmentPages(segment) == PagesOf([start |-> segment.start, pages |-> PageCount(segment)])

PowerOfTwo(n) == \E k \in 0..n : n = 2 ^ k

SegmentStatus(image, segment) ==
    FirstFailure(<< <<segment.fileSize > segment.size \/ segment.size = 0,
                      "SegmentFilesLargerThanMemory">>,
                    <<segment.virtual # segment.start, "SegmentAddressMismatch">>,
                    <<segment.start < MinLoadAddress, "SegmentAddressTooLow">>,
                    <<\/ segment.start % PageSize # 0
                      \/ segment.align < PageSize
                      \/ ~PowerOfTwo(segment.align)
                      \/ segment.offset % segment.align # segment.virtual % segment.align,
                      "SegmentAlignment">>,
                    <<Overflows(segment.offset + segment.fileSize), "ArithmeticOverflow">>,
                    <<segment.offset + segment.fileSize > image.size, "SegmentOutOfBounds">>,
                    <<Overflows(MemoryEnd(segment)), "ArithmeticOverflow">> >>)

RangesOverlap(left, right) ==
    left.start < MemoryEnd(right) /\ right.start < MemoryEnd(left)

LoadHeaders(image) == {i \in DOMAIN image.headers : image.headers[i].load}

Segments(image) == SelectSeq(image.headers, LAMBDA header : header.load)

\* One iteration of validate_segments.
HeaderStatus(image, i) ==
    LET segment == image.headers[i]
        prior   == {j \in LoadHeaders(image) : j < i}
    IN  IF ~segment.load THEN "Ok"
        ELSE IF SegmentStatus(image, segment) # "Ok" THEN SegmentStatus(image, segment)
        ELSE FirstFailure(<< <<Cardinality(prior) >= MaxSegments, "TooManyLoadSegments">>,
                             <<\E j \in prior : RangesOverlap(segment, image.headers[j]),
                               "SegmentOverlap">> >>)

EntryIsExecutable(image) ==
    \E i \in LoadHeaders(image) :
        /\ image.headers[i].executable
        /\ image.entry >= image.headers[i].start /\ image.entry < MemoryEnd(image.headers[i])

ImageStatus(image) ==
    LET tableEnd == image.table + Len(image.headers)
        headers  == FirstFailing(image.headers, LAMBDA i : HeaderStatus(image, i))
    IN  FirstFailure(<< <<~image.elf64, "UnsupportedImage">>,
                        <<image.headers = <<>>, "MissingProgramHeaders">>,
                        <<Overflows(tableEnd), "ArithmeticOverflow">>,
                        <<tableEnd > image.size, "ProgramHeaderTableOutOfBounds">>,
                        <<headers # "Ok", headers>>,
                        <<LoadHeaders(image) = {}, "MissingProgramHeaders">>,
                        <<~EntryIsExecutable(image), "EntryNotExecutable">> >>)
=============================================================================
