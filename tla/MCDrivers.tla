----------------------------- MODULE MCDrivers -----------------------------
(* The bus drivers on small instances.  They share nothing, so a behaviour *)
(* is one of the driver that Init picks, and the others stand.  (The encoder *)
(* hangs on an interrupt of a pin instead of a bus.)                       *)
EXTENDS I2cMaster, TLC

CONSTANTS
    SpiFifo, TxSizes, RxSizes,
    Driver, Ring, UartFifo, UartSizes, RequestSize, ReplySize, Heard, Reader,
    Before, Numbers,
    Sensing, Line, Proximity, Setup,
    Far, Unknown

(* Callers are no words, and a reader's replies fit in the receive ring;    *)
(* requests have a size of their own; the constructor has written a few     *)
(* datagrams before it reads.                                               *)
ASSUME DriversAssumption ==
    /\ None \notin Nat \cup Driver \cup Sensing
    /\ SpiFifo \in Nat \ {0} /\ TxSizes \subseteq Nat /\ RxSizes \subseteq Nat
    /\ Ring \in Nat \ {0} /\ UartFifo \in Nat \ {0}
    /\ UartSizes \subseteq Nat \ {0}
    /\ RequestSize \in Nat \ ({0} \cup UartSizes) /\ ReplySize \in Nat \ {0}
    /\ Heard \in Nat /\ Heard >= RequestSize + ReplySize
    /\ Reader \in Driver /\ Before \in Nat \ {0, 1} /\ Numbers \in Nat \ {0}
    /\ Proximity \in Line /\ Setup \in Nat \ {0}
    /\ Far \in Nat /\ Unknown \notin 0 .. 3

VARIABLES
    driver,     \* "i2c", "spi", "uart", "sensors" or "encoder"
    sApi, sLine, sNotify, sPc, sBusy, sTxSize, sRxSize, sTxCount, sRxCount,
    sDummySize, sRxBuffer, sTxie, sRxie, sStxisel, sTxFifo, sShift, sRxFifo, sSent,
    uBuffer, uIn, uOut, uFifo, uTxie, uIsr, uRoom, uEmpty, uMutex, uPc, uSize,
    uPushed, uDatagrams, uWire, uRd, uReply, uAnswered, uRead, uWritten,
    nSelected, nLk, nInitialized, nProximityLk, nProximitySet, nConfigured, nPc,
    nLine, nStep, nResult,
    eShaft, eChanged, ePrevState, ePosition, eSeen, eZero

spi == <<sApi, sLine, sNotify, sPc, sBusy, sTxSize, sRxSize, sTxCount, sRxCount,
         sDummySize, sRxBuffer, sTxie, sRxie, sStxisel, sTxFifo, sShift,
         sRxFifo, sSent>>
uart == <<uBuffer, uIn, uOut, uFifo, uTxie, uIsr, uRoom, uEmpty, uMutex, uPc,
          uSize, uPushed, uDatagrams, uWire, uRd, uReply, uAnswered, uRead, uWritten>>
sensors == <<nSelected, nLk, nInitialized, nProximityLk, nProximitySet,
             nConfigured, nPc, nLine, nStep, nResult>>
encoder == <<eShaft, eChanged, ePrevState, ePosition, eSeen, eZero>>
all == <<driver, vars, spi, uart, sensors, encoder>>

Spi == INSTANCE SpiMaster
           WITH Fifo <- SpiFifo,
                api <- sApi, line <- sLine, notify <- sNotify, pc <- sPc,
                busy <- sBusy, txSize <- sTxSize, rxSize <- sRxSize,
                txCount <- sTxCount, rxCount <- sRxCount,
                dummySize <- sDummySize, rxBuffer <- sRxBuffer,
                txie <- sTxie, rxie <- sRxie, stxisel <- sStxisel,
                txFifo <- sTxFifo, shift <- sShift, rxFifo <- sRxFifo,
                sent <- sSent

Uart == INSTANCE Uart
            WITH Fifo <- UartFifo, WriteSizes <- UartSizes,
                 wrBuffer <- uBuffer, wrIn <- uIn, wrOut <- uOut, fifo <- uFifo,
                 txie <- uTxie, isr <- uIsr, semRoom <- uRoom,
                 semEmpty <- uEmpty, mutex <- uMutex, pc <- uPc, size <- uSize,
                 pushed <- uPushed, datagrams <- uDatagrams, wire <- uWire,
                 rd <- uRd, reply <- uReply, answered <- uAnswered,
                 read <- uRead, written <- uWritten

Sensors == INSTANCE I2cSensors
               WITH Thread <- Sensing,
                    selected <- nSelected, lk <- nLk, initialized <- nInitialized,
                    proximity_lk <- nProximityLk, proximity_set <- nProximitySet,
                    configured <- nConfigured, pc <- nPc, line <- nLine,
                    step <- nStep, result <- nResult

Encoder == INSTANCE Encoder
               WITH shaft <- eShaft, changed <- eChanged,
                    prev_state <- ePrevState, position <- ePosition,
                    seen <- eSeen, zero <- eZero

On(d, A) == driver = d /\ A /\ UNCHANGED driver
OnI2c(A) == On("i2c", A) /\ UNCHANGED <<spi, uart, sensors, encoder>>
OnSpi(A) == On("spi", A) /\ UNCHANGED <<vars, uart, sensors, encoder>>
OnUart(A) == On("uart", A) /\ UNCHANGED <<vars, spi, sensors, encoder>>
OnSensors(A) == On("sensors", A) /\ UNCHANGED <<vars, spi, uart, encoder>>
OnEncoder(A) == On("encoder", A) /\ UNCHANGED <<vars, spi, uart, sensors>>

DriversInit ==
    /\ driver \in {"i2c", "spi", "uart", "sensors", "encoder"}
    /\ Init /\ Spi!Init /\ Uart!Init /\ Sensors!Init /\ Encoder!Init
    /\ driver # "sensors" => /\ nSelected = {} /\ nInitialized
                             /\ nProximitySet /\ nConfigured = Setup
    /\ driver # "encoder" => eShaft = 0

DriversNext == \/ OnI2c(Next) \/ OnSpi(Spi!Next) \/ OnUart(Uart!Next)
               \/ OnSensors(Sensors!Next) \/ OnEncoder(Encoder!Next)

DriversSpec ==
    /\ DriversInit /\ [][DriversNext]_all
    /\ \A t \in Caller : WF_all(OnI2c(Continue(t))) /\ WF_all(OnSpi(Spi!Continue(t)))
    /\ WF_all(OnI2c(Handles)) /\ WF_all(OnI2c(Unit \/ Collide))
    /\ WF_all(OnSpi(Spi!Handles)) /\ WF_all(OnSpi(Spi!Load \/ Spi!Shifted))
    /\ WF_all(OnUart(Uart!Handles)) /\ WF_all(OnUart(Uart!Shift))
    /\ WF_all(OnUart(Uart!Reply))
    /\ \A t \in Driver : SF_all(OnUart(Uart!Continue(t)))

(* What is read is what was asked for: SPI2_WriteRead returns when its     *)
(* transfer is over, with its bytes, and is not told of the end of         *)
(* another; the reader of a TMC2209 takes the reply to its request for the *)
(* reply, and no echo of what others send meanwhile; a reading over the    *)
(* multiplexer is of its own sensor, set up, whichever transfer failed;    *)
(* and the position of an encoder is the way its shaft has gone.           *)
ReadsTrue == /\ Spi!Complete /\ Spi!OneNotice
             /\ Uart!Replied
             /\ Sensors!Addressed
             /\ Encoder!Tracks

(* Datagrams leave the UART whole and in order, whoever wrote them. *)
UartWhole == Uart!Whole

(* Every I2C1_WriteRead and SPI2_WriteRead returns, whoever waits in       *)
(* UART1_Write or UART1_Flush is woken, and UART1_Read finds its byte.     *)
AllReturn == Returns /\ Spi!Returns /\ Uart!Done
=============================================================================
